---- MODULE Spec2Model ----
(***************************************************************************)
(* Rule / expression engine of the insurance-quoting wizard:               *)
(* expressions (app/services/expression.py),                               *)
(* visibility rules (app/services/rules.py), answer validation             *)
(* (app/services/validation.py), pricing rules (app/services/pricing.py)   *)
(* and the API quote pipeline (app/api/router.py).                         *)
(***************************************************************************)
EXTENDS Integers, Sequences, FiniteSets, TLC

VARIABLES
    catalog,               \* the loaded Catalog (schema document)
    pc,                    \* position of the running call
    answers,               \* the answers mapping handed to the call
    visible,               \* the visibility map (field id -> bool)
    require_all_required,  \* validate_answers' keyword flag
    result,                \* what validate_answers returned or raised
    rule_i,                \* index of the rule a rule loop is at
    op_j,                  \* index of the operation the inner loop is at
    cur_ops,               \* the operations list the inner loop iterates
    pass,                  \* execute_pricing: pricing, env closures, outputs
    payload,               \* the JSON body of the request
    quote,                 \* what build_quote returned or raised
    response,              \* the HTTP response of the request
    call,                  \* the arguments of a safe_eval call: expr, env, cfg
    log,                   \* history: the steps executed so far, in order
    cache,                 \* load_catalog's lru_cache: entries, hits, misses
    files,                 \* the schema documents on disk, by path
    frames,                \* the locals of each invocation running in the process
    heap,                  \* the PricingState objects, by address
    session                \* the wizard's session: the signed cookie of the client

vars == <<catalog, pc, answers, visible, require_all_required, result,
          rule_i, op_j, cur_ops, pass, payload, quote, response, call, log,
          cache, files, frames, heap, session>>

-----------------------------------------------------------------------------
(* JSON / Python values, tagged by their Python type.                      *)

NullV == [t |-> "null"]
BoolV(b) == [t |-> "bool", b |-> b]
IntV(n) == [t |-> "int", i |-> n]
StrV(s) == [t |-> "str", s |-> s]
ListV(l) == [t |-> "list", l |-> l]
DictV(d) == [t |-> "dict", d |-> d]
DecV(m, e) == [t |-> "dec", m |-> m, e |-> e]      \* Decimal: m * 10^-e
FloatV(m, e) == [t |-> "float", m |-> m, e |-> e]  \* float: the one nearest m * 10^-e
NsV(d) == [t |-> "ns", d |-> d]                    \* Namespace(data)
FnV(name) == [t |-> "fn", name |-> name]           \* a callable of the environment

EmptyMap == [k \in {} |-> NullV]
Put(m, k, v) == [x \in (DOMAIN m) \cup {k} |-> IF x = k THEN v ELSE m[x]]
Remove(m, k) == [x \in (DOMAIN m) \ {k} |-> m[x]]

Range(s) == {s[i] : i \in DOMAIN s}

Char(s, i) == SubSeq(s, i, i)

Digits == <<"0", "1", "2", "3", "4", "5", "6", "7", "8", "9">>

IsDigit(c) == \E d \in DOMAIN Digits : Digits[d] = c

DigitVal(c) == (CHOOSE d \in DOMAIN Digits : Digits[d] = c) - 1

\* str.strip(): drop leading and trailing blanks
RECURSIVE Strip(_)
Strip(s) ==
    IF Len(s) = 0 THEN s
    ELSE IF Char(s, 1) = " " THEN Strip(SubSeq(s, 2, Len(s)))
    ELSE IF Char(s, Len(s)) = " " THEN Strip(SubSeq(s, 1, Len(s) - 1))
    ELSE s

AllDigits(s) == Len(s) > 0 /\ \A i \in 1..Len(s) : IsDigit(Char(s, i))

RECURSIVE DigitsToNat(_)
DigitsToNat(s) ==
    IF Len(s) = 0 THEN 0
    ELSE 10 * DigitsToNat(SubSeq(s, 1, Len(s) - 1)) + DigitVal(Char(s, Len(s)))

\* int(str): optional blanks around an optionally signed run of digits
IntParses(s) ==
    LET b == Strip(s) IN
    /\ Len(b) > 0
    /\ IF Char(b, 1) \in {"+", "-"} THEN AllDigits(SubSeq(b, 2, Len(b))) ELSE AllDigits(b)

ParseInt(s) ==
    LET b == Strip(s) IN
    IF Char(b, 1) = "-" THEN 0 - DigitsToNat(SubSeq(b, 2, Len(b)))
    ELSE IF Char(b, 1) = "+" THEN DigitsToNat(SubSeq(b, 2, Len(b)))
    ELSE DigitsToNat(b)

\* Decimal('...'): optional blanks around an optionally signed run of digits with at
\* most one point (the exponent, NaN and Infinity notations are not among the inputs)
DecimalParses(s) ==
    LET b == Strip(s)
        u == IF Len(b) > 0 /\ Char(b, 1) \in {"+", "-"} THEN SubSeq(b, 2, Len(b)) ELSE b
    IN /\ Len(u) > 0
       /\ \A i \in 1..Len(u) : IsDigit(Char(u, i)) \/ Char(u, i) = "."
       /\ Cardinality({i \in 1..Len(u) : Char(u, i) = "."}) <= 1
       /\ \E i \in 1..Len(u) : IsDigit(Char(u, i))

RECURSIVE DropPoints(_)
DropPoints(s) ==
    IF Len(s) = 0 THEN s
    ELSE IF Char(s, 1) = "." THEN DropPoints(SubSeq(s, 2, Len(s)))
    ELSE Char(s, 1) \o DropPoints(SubSeq(s, 2, Len(s)))

ParseDecimal(s) ==
    LET b == Strip(s)
        u == IF Char(b, 1) \in {"+", "-"} THEN SubSeq(b, 2, Len(b)) ELSE b
        pts == {i \in 1..Len(u) : Char(u, i) = "."}
        e == IF pts = {} THEN 0 ELSE Len(u) - (CHOOSE i \in pts : TRUE)
        m == DigitsToNat(DropPoints(u))
    IN DecV(IF Char(b, 1) = "-" THEN 0 - m ELSE m, e)

RECURSIVE NatToStr(_)
NatToStr(n) ==
    IF n < 10 THEN Digits[n + 1] ELSE NatToStr(n \div 10) \o Digits[(n % 10) + 1]

\* n zeros
RECURSIVE Zeros(_)
Zeros(n) == IF n <= 0 THEN "" ELSE "0" \o Zeros(n - 1)

\* str(Decimal): the coefficient's digits with the point e places from the right
\* (the plain notation; the coefficients here never need the scientific one)
DecStr(m, e) ==
    LET ds == NatToStr(IF m < 0 THEN 0 - m ELSE m)
        padded == Zeros(e + 1 - Len(ds)) \o ds
        n == Len(padded)
        sign == IF m < 0 THEN "-" ELSE ""
    IN IF e = 0 THEN sign \o ds
       ELSE sign \o SubSeq(padded, 1, n - e) \o "." \o SubSeq(padded, n - e + 1, n)

\* str(v)
PyStr(v) ==
    CASE v.t = "str" -> v.s
      [] v.t = "dec" -> DecStr(v.m, v.e)
      [] v.t = "int" -> IF v.i < 0 THEN "-" \o NatToStr(0 - v.i) ELSE NatToStr(v.i)
      [] v.t = "bool" -> IF v.b THEN "True" ELSE "False"
      [] v.t = "null" -> "None"
      [] OTHER -> "{}"

-----------------------------------------------------------------------------
(* The catalog: a schema document as the Catalog accessors read it.        *)

NoConstraints == [k \in {} |-> 0]

\* raw["inventory"]["fields"], in declaration order
Fields ==
    << [field_id |-> "FLD_OBJECTS_SELECTED", data_type |-> "string[]", required |-> TRUE,
        dictionary_id |-> "DICT_INSURANCE_OBJECTS", constraints |-> NoConstraints,
        screen_id |-> "SCR_01_CONDITIONS", category |-> ""],
       [field_id |-> "FLD_SLED_TYPE", data_type |-> "string", required |-> FALSE,
        dictionary_id |-> "DICT_SLED_TYPES", constraints |-> NoConstraints,
        screen_id |-> "SCR_01_CONDITIONS", category |-> ""],
       [field_id |-> "FLD_INSURED_SUM", data_type |-> "int", required |-> TRUE,
        dictionary_id |-> "", constraints |-> [min |-> 100, max |-> 500, step |-> 100],
        screen_id |-> "SCR_01_CONDITIONS", category |-> ""],
       [field_id |-> "FLD_POLICYHOLDER_NAME", data_type |-> "string", required |-> TRUE,
        dictionary_id |-> "", constraints |-> [min_length |-> 2, max_length |-> 5],
        screen_id |-> "SCR_05_CONTACTS", category |-> ""],
       [field_id |-> "FLD_RISKS_SLED", data_type |-> "string[]", required |-> FALSE,
        dictionary_id |-> "DICT_RISKS", constraints |-> NoConstraints,
        screen_id |-> "SCR_03_RISKS", category |-> "CAT_SLED"] >>

\* raw["dictionaries"]: dictionary id -> items
Dictionaries ==
    [DICT_INSURANCE_OBJECTS |->
        << [id |-> "OBJ_SANTA", weight |-> 0, object_gate |-> ""],
           [id |-> "OBJ_SLED", weight |-> 0, object_gate |-> ""],
           [id |-> "OBJ_ALL_RISKS", weight |-> 0, object_gate |-> ""] >>,
     DICT_SLED_TYPES |->
        << [id |-> "SLED_CLASSIC", weight |-> 0, object_gate |-> ""],
           [id |-> "SLED_TURBO", weight |-> 0, object_gate |-> ""] >>,
     DICT_RISKS |->
        << [id |-> "R_SLED_HARD_LANDING_BREAK", weight |-> 1, object_gate |-> ""],
           [id |-> "R_FM_CAT_ATTACK", weight |-> 1, object_gate |-> ""],
           [id |-> "R_SLED_THEFT", weight |-> 2, object_gate |-> ""],
           [id |-> "R_SLED_GARAGED", weight |-> -1, object_gate |-> ""] >>,
     DICT_RISK_CATEGORIES |->
        << [id |-> "CAT_SLED", weight |-> 0, object_gate |-> "OBJ_SLED"] >>]

\* Catalog.fields()
fields(cat) == cat.fields

\* Catalog.dictionary_items(dictionary_id)
dictionary_items(cat, dictionary_id) == cat.dictionaries[dictionary_id]

\* field_defs = {f["field_id"]: f for f in catalog.fields()}
FieldIds(cat) == {fields(cat)[i].field_id : i \in DOMAIN fields(cat)}

-----------------------------------------------------------------------------
(* app/services/validation.py                                              *)

\* what _as_int raises (TRUE) or returns
AsIntFails(value) ==
    \/ value.t = "bool"
    \/ value.t \notin {"int", "str"}
    \/ value.t = "str" /\ (Strip(value.s) = "" \/ ~IntParses(value.s))

_as_int(value) == IF value.t = "int" THEN value.i ELSE ParseInt(value.s)

\* _as_str_list: the list of str(v), or a one-element list for a bare string
_as_str_list(value) ==
    CASE value.t = "null" -> << >>
      [] value.t = "list" -> [i \in DOMAIN value.l |-> PyStr(value.l[i])]
      [] value.t = "str" -> << value.s >>

\* "normalize unique while preserving order"
RECURSIVE Uniq(_)
Uniq(v) ==
    IF Len(v) = 0 THEN << >>
    ELSE LET init == Uniq(SubSeq(v, 1, Len(v) - 1))
             x == v[Len(v)]
         IN IF x \in Range(init) THEN init ELSE Append(init, x)

Has(c, k) == k \in DOMAIN c

\* the body of the try block for one provided field: err = "" when nothing is raised,
\* otherwise the message of the exception; val the value stored in normalized[fid]
CheckInt(f, val) ==
    LET c == f.constraints IN
    IF AsIntFails(val) THEN [err |-> "not int", val |-> NullV]
    ELSE LET v == _as_int(val) IN
         IF Has(c, "min") /\ v < c["min"] THEN [err |-> "below minimum", val |-> NullV]
         ELSE IF Has(c, "max") /\ v > c["max"] THEN [err |-> "above maximum", val |-> NullV]
         ELSE IF /\ Has(c, "step")
                 /\ c["step"] > 0
                 /\ ((v - (IF Has(c, "min") THEN c["min"] ELSE 0)) % c["step"]) # 0
              THEN [err |-> "off the slider step", val |-> NullV]
         ELSE [err |-> "", val |-> IntV(v)]

\* Decimal kept, Decimal(str(val)) of an int, float or str (a bool is an int, and
\* Decimal('True') is refused)
CheckDecimal(f, val) ==
    CASE val.t = "dec" -> [err |-> "", val |-> val]
      [] val.t = "int" -> [err |-> "", val |-> DecV(val.i, 0)]
      [] val.t = "float" -> [err |-> "", val |-> DecV(val.m, val.e)]
      [] val.t = "str" /\ DecimalParses(val.s) -> [err |-> "", val |-> ParseDecimal(val.s)]
      [] val.t \in {"str", "bool"} -> [err |-> "invalid decimal", val |-> NullV]
      [] OTHER -> [err |-> "not a number", val |-> NullV]

CheckString(f, val) ==
    LET c == f.constraints IN
    IF val.t # "str" THEN [err |-> "not string", val |-> NullV]
    ELSE IF Has(c, "min_length") /\ Len(val.s) < c["min_length"]
         THEN [err |-> "too short", val |-> NullV]
    ELSE IF Has(c, "max_length") /\ Len(val.s) > c["max_length"]
         THEN [err |-> "too long", val |-> NullV]
    ELSE [err |-> "", val |-> val]

CheckStringList(f, val) ==
    IF val.t \notin {"null", "list", "str"} THEN [err |-> "not string[]", val |-> NullV]
    ELSE LET u == Uniq(_as_str_list(val)) IN
         [err |-> "", val |-> ListV([i \in DOMAIN u |-> StrV(u[i])])]

CheckObject(f, val) ==
    IF val.t # "dict" THEN [err |-> "not object", val |-> NullV]
    ELSE [err |-> "", val |-> val]

ConvertField(f, val) ==
    CASE f.data_type = "int" -> CheckInt(f, val)
      [] f.data_type = "decimal" -> CheckDecimal(f, val)
      [] f.data_type = "string" -> CheckString(f, val)
      [] f.data_type = "string[]" -> CheckStringList(f, val)
      [] f.data_type = "object" -> CheckObject(f, val)
      [] OTHER -> [err |-> "unsupported data_type", val |-> NullV]

\* the membership test left out
DictionaryCheck_skipped(cat, f, conv) == conv

\* dictionary membership (for string or string[])
DictionaryCheck(cat, f, conv) ==
    IF conv.err # "" \/ f.dictionary_id = "" THEN conv
    ELSE LET items == dictionary_items(cat, f.dictionary_id)
             allowed == {items[i].id : i \in DOMAIN items}
         IN IF f.data_type = "string" /\ conv.val.s \notin allowed
            THEN [err |-> "not in dictionary", val |-> conv.val]
            ELSE IF /\ f.data_type = "string[]"
                    /\ \E i \in DOMAIN conv.val.l : conv.val.l[i].s \notin allowed
            THEN [err |-> "values not in dictionary", val |-> conv.val]
            ELSE conv

ValidateField(cat, f, val) == DictionaryCheck(cat, f, ConvertField(f, val))

\* provided = fid in answers and answers[fid] is not None and answers[fid] != ""
Provided(ans, fid) ==
    /\ fid \in DOMAIN ans
    /\ ans[fid].t # "null"
    /\ ~(ans[fid].t = "str" /\ ans[fid].s = "")

\* the visibility test left out: every field is validated
Invisible_never(vis, fid) == FALSE

\* visible is not None and visible.get(fid) is False
Invisible(vis, fid) == fid \in DOMAIN vis /\ vis[fid] = FALSE

\* unknown keys reported only when they carry a value
UnknownErrors_nonnull(cat, ans) ==
    [fid \in {k \in (DOMAIN ans) \ FieldIds(cat) : ans[k].t # "null"} |-> "unknown field"]

\* "Unknown field ids": the first loop
UnknownErrors(cat, ans) ==
    [fid \in (DOMAIN ans) \ FieldIds(cat) |-> "unknown field"]

\* the required check made whatever require_all_required says
ValidateStep_always_required(cat, ans, vis, req, f, acc) ==
    LET fid == f.field_id IN
    IF Invisible(vis, fid) THEN acc
    ELSE IF f.required /\ ~Provided(ans, fid)
         THEN [acc EXCEPT !.field_errors = Put(@, fid, "required")]
    ELSE IF ~Provided(ans, fid) THEN acc
    ELSE LET r == ValidateField(cat, f, ans[fid]) IN
         IF r.err # "" THEN [acc EXCEPT !.field_errors = Put(@, fid, r.err)]
         ELSE [acc EXCEPT !.normalized = Put(@, fid, r.val)]

\* "Validate known fields": one iteration of the second loop, on acc = the pair
\* (field_errors, normalized)
ValidateStep(cat, ans, vis, req, f, acc) ==
    LET fid == f.field_id IN
    IF Invisible(vis, fid) THEN acc
    ELSE IF f.required /\ req /\ ~Provided(ans, fid)
         THEN [acc EXCEPT !.field_errors = Put(@, fid, "required")]
    ELSE IF ~Provided(ans, fid) THEN acc
    ELSE LET r == ValidateField(cat, f, ans[fid]) IN
         IF r.err # "" THEN [acc EXCEPT !.field_errors = Put(@, fid, r.err)]
         ELSE [acc EXCEPT !.normalized = Put(@, fid, r.val)]

\* fail-fast: the loop stops at the first field error
RECURSIVE ValidateLoop_fail_fast(_, _, _, _, _, _)
ValidateLoop_fail_fast(cat, ans, vis, req, i, acc) ==
    IF i > Len(fields(cat)) \/ DOMAIN acc.field_errors # {} THEN acc
    ELSE ValidateLoop_fail_fast(cat, ans, vis, req, i + 1,
                                ValidateStep(cat, ans, vis, req, fields(cat)[i], acc))

RECURSIVE ValidateLoop(_, _, _, _, _, _)
ValidateLoop(cat, ans, vis, req, i, acc) ==
    IF i > Len(fields(cat)) THEN acc
    ELSE ValidateLoop(cat, ans, vis, req, i + 1,
                      ValidateStep(cat, ans, vis, req, fields(cat)[i], acc))

\* "Keep only validated + visible fields"
KeepVisible(normalized, vis) ==
    [fid \in {k \in DOMAIN normalized : ~(k \in DOMAIN vis /\ ~vis[k])} |-> normalized[fid]]

\* the class of the exception the try block raised for a field: Decimal(str(val))
\* raises decimal.InvalidOperation, every other failure is a ValueError
RaisedKind(r) ==
    IF r.err = "" THEN ""
    ELSE IF r.err = "invalid decimal" THEN "InvalidOperation"
    ELSE "ValueError"

\* a handler for ValueError alone
Handled_value_error(kind) == kind = "ValueError"

\* except Exception as e: both classes derive from Exception
Handled(kind) == kind \in {"ValueError", "InvalidOperation"}

\* the exception that leaves the second loop past its handler, "" when there is none
RECURSIVE Escaped(_, _, _, _, _)
Escaped(cat, ans, vis, req, i) ==
    IF i > Len(fields(cat)) THEN ""
    ELSE LET f == fields(cat)[i]
             kind == RaisedKind(ValidateField(cat, f, ans[f.field_id]))
         IN IF Invisible(vis, f.field_id) \/ ~Provided(ans, f.field_id)
            THEN Escaped(cat, ans, vis, req, i + 1)
            ELSE IF kind # "" /\ ~Handled(kind) THEN kind
            ELSE Escaped(cat, ans, vis, req, i + 1)

\* validate_answers: the normalized answers, or the FieldValidationError raised
validate_answers(cat, ans, vis, req) ==
    LET acc == ValidateLoop(cat, ans, vis, req, 1,
                            [field_errors |-> UnknownErrors(cat, ans),
                             normalized |-> EmptyMap])
    IN IF Escaped(cat, ans, vis, req, 1) # ""
       THEN [raised |-> Escaped(cat, ans, vis, req, 1), field_errors |-> EmptyMap,
             normalized |-> EmptyMap]
       ELSE IF DOMAIN acc.field_errors # {}
       THEN [raised |-> "FieldValidationError", field_errors |-> acc.field_errors,
             normalized |-> EmptyMap]
       ELSE [raised |-> "", field_errors |-> acc.field_errors,
             normalized |-> KeepVisible(acc.normalized, vis)]


-----------------------------------------------------------------------------
(* Python value semantics used by the evaluator (app/services/expression.py) *)

RECURSIVE Pow10(_)
Pow10(n) == IF n = 0 THEN 1 ELSE 10 * Pow10(n - 1)

Max(a, b) == IF a >= b THEN a ELSE b

IsNum(v) == v.t \in {"int", "dec", "bool"}

\* a number as mantissa and exponent
Mant(v) == CASE v.t = "int" -> v.i [] v.t = "dec" -> v.m [] v.t = "bool" -> IF v.b THEN 1 ELSE 0
Expo(v) == IF v.t = "dec" THEN v.e ELSE 0

\* the mantissa of v at exponent e >= Expo(v)
Scaled(v, e) == Mant(v) * Pow10(e - Expo(v))

NumLt(a, b) == LET e == Max(Expo(a), Expo(b)) IN Scaled(a, e) < Scaled(b, e)
NumEq(a, b) == LET e == Max(Expo(a), Expo(b)) IN Scaled(a, e) = Scaled(b, e)

\* bool(v)
Truthy(v) ==
    CASE v.t = "null" -> FALSE
      [] v.t = "bool" -> v.b
      [] v.t = "int" -> v.i # 0
      [] v.t = "dec" -> v.m # 0
      [] v.t = "str" -> v.s # ""
      [] v.t = "list" -> Len(v.l) > 0
      [] v.t = "dict" -> DOMAIN v.d # {}
      [] OTHER -> TRUE

\* left == right
RECURSIVE PyEq(_, _)
PyEq(a, b) ==
    IF IsNum(a) /\ IsNum(b) THEN NumEq(a, b)
    ELSE IF a.t # b.t THEN FALSE
    ELSE CASE a.t = "list" ->
                 /\ Len(a.l) = Len(b.l)
                 /\ \A i \in DOMAIN a.l : PyEq(a.l[i], b.l[i])
           [] a.t = "str" -> a.s = b.s
           [] a.t = "null" -> TRUE
           [] OTHER -> a = b

\* an evaluation either returns a value or raises
Ret(v) == [raised |-> "", v |-> v]
Raise(kind) == [raised |-> kind, v |-> NullV]

\* can left < right (and the other orderings) be evaluated without TypeError
Ordered(a, b) == IsNum(a) /\ IsNum(b)

\* one link of a comparison chain
CompareOp(op, a, b) ==
    CASE op = "Eq" -> Ret(BoolV(PyEq(a, b)))
      [] op = "NotEq" -> Ret(BoolV(~PyEq(a, b)))
      [] op \in {"Gt", "Lt", "GtE", "LtE"} ->
            IF ~Ordered(a, b) THEN Raise("TypeError")
            ELSE Ret(BoolV(CASE op = "Gt" -> NumLt(b, a)
                             [] op = "Lt" -> NumLt(a, b)
                             [] op = "GtE" -> ~NumLt(a, b)
                             [] op = "LtE" -> ~NumLt(b, a)))
      [] OTHER -> Raise("ValueError")

\* quotients are modelled when they terminate within this many further digits
MaxQuotientDigits == 4

\* the result of an exact operation on two numbers: int stays int, Decimal wins
MkNum(a, b, m, e) ==
    IF a.t = "dec" \/ b.t = "dec" THEN DecV(m, e) ELSE IntV(m)

\* left + right, left - right, left * right, left / right
BinOp(op, a, b) ==
    IF op \notin {"Add", "Sub", "Mult", "Div"} THEN Raise("ValueError")
    ELSE IF IsNum(a) /\ IsNum(b) THEN
        LET e == Max(Expo(a), Expo(b)) IN
        CASE op = "Add" -> Ret(MkNum(a, b, Scaled(a, e) + Scaled(b, e), e))
          [] op = "Sub" -> Ret(MkNum(a, b, Scaled(a, e) - Scaled(b, e), e))
          [] op = "Mult" -> Ret(MkNum(a, b, Mant(a) * Mant(b), Expo(a) + Expo(b)))
          [] op = "Div" ->
                IF Mant(b) = 0 THEN Raise("ZeroDivisionError")
                ELSE IF a.t # "dec" /\ b.t # "dec" THEN Raise("FloatUnmodelled")
                ELSE LET ks == {k \in 0..MaxQuotientDigits :
                                    (Scaled(a, e) * Pow10(k)) % Scaled(b, e) = 0}
                     IN IF ks = {} THEN Raise("QuotientUnmodelled")
                        ELSE LET k == CHOOSE x \in ks : \A y \in ks : x <= y
                             IN Ret(DecV((Scaled(a, e) * Pow10(k)) \div Scaled(b, e), k))
    ELSE IF op = "Add" /\ a.t = "str" /\ b.t = "str" THEN Ret(StrV(a.s \o b.s))
    ELSE IF op = "Add" /\ a.t = "list" /\ b.t = "list" THEN Ret(ListV(a.l \o b.l))
    ELSE Raise("TypeError")

\* str in str
IsSubstring(x, s) ==
    \E i \in 1..(Len(s) + 1) : \E j \in (i - 1)..Len(s) : SubSeq(s, i, j) = x

\* ----- helpers per schema.meta.engine.expression_notes.helpers -----
includes(array_or_string, value) ==
    CASE array_or_string.t = "null" -> FALSE
      [] array_or_string.t = "str" -> IsSubstring(PyStr(value), array_or_string.s)
      [] array_or_string.t = "list" ->
            \E i \in DOMAIN array_or_string.l : PyEq(array_or_string.l[i], value)
      [] OTHER -> FALSE

Sized(arr) == arr.t \in {"list", "str", "dict"}

PyLen(arr) ==
    CASE arr.t = "list" -> Len(arr.l)
      [] arr.t = "str" -> Len(arr.s)
      [] arr.t = "dict" -> Cardinality(DOMAIN arr.d)

anySelected(arr) ==
    IF ~Truthy(arr) THEN Ret(BoolV(FALSE))
    ELSE IF ~Sized(arr) THEN Raise("TypeError")
    ELSE Ret(BoolV(PyLen(arr) > 0))

count(arr) ==
    IF ~Truthy(arr) THEN Ret(IntV(0))
    ELSE IF ~Sized(arr) THEN Raise("TypeError")
    ELSE Ret(IntV(PyLen(arr)))

RECURSIVE coalesce(_)
coalesce(args) ==
    IF Len(args) = 0 THEN NullV
    ELSE IF args[1].t # "null" THEN args[1]
    ELSE coalesce(Tail(args))

\* min(a, b, ...): the first smallest argument
RECURSIVE MinOf(_)
MinOf(args) ==
    IF Len(args) = 1 THEN args[1]
    ELSE LET m == MinOf(SubSeq(args, 1, Len(args) - 1))
             x == args[Len(args)]
         IN IF NumLt(x, m) THEN x ELSE m

PyMin(args) ==
    LET xs == IF Len(args) = 1 /\ args[1].t = "list" THEN args[1].l ELSE args IN
    IF Len(args) = 0 \/ (Len(args) = 1 /\ args[1].t # "list") THEN Raise("TypeError")
    ELSE IF Len(xs) = 0 THEN Raise("ValueError")
    ELSE IF \E i \in DOMAIN xs : ~IsNum(xs[i]) THEN Raise("TypeError")
    ELSE Ret(MinOf(xs))


-----------------------------------------------------------------------------
(* Expression trees, as ast.parse hands them to SafeEvaluator              *)

Constant(v) == [k |-> "Constant", value |-> v]
Name(id) == [k |-> "Name", id |-> id]
Attribute(value, attr) == [k |-> "Attribute", value |-> value, attr |-> attr]
UnaryOp(op, operand) == [k |-> "UnaryOp", op |-> op, operand |-> operand]
BoolOp(op, values) == [k |-> "BoolOp", op |-> op, values |-> values]
BinOpNode(op, left, right) == [k |-> "BinOp", op |-> op, left |-> left, right |-> right]
Compare(left, ops, comparators) ==
    [k |-> "Compare", left |-> left, ops |-> ops, comparators |-> comparators]
IfExp(test, body, orelse) == [k |-> "IfExp", test |-> test, body |-> body, orelse |-> orelse]
Call(func, args) == [k |-> "Call", func |-> func, args |-> args]
ListNode(elts) == [k |-> "List", elts |-> elts]
\* value[slice]: a node SafeEvaluator has no visit_ method for
Subscript(value, slice) == [k |-> "Subscript", value |-> value, slice |-> slice]

\* the numeric literal n, as _wrap_numbers_as_decimal leaves it: Decimal('n')
Num(s) == Call(Name("Decimal"), << Constant(StrV(s)) >>)
\* root.attr
Attr(root, attr) == Attribute(Name(root), attr)
TrueExpr == Constant(BoolV(TRUE))
FalseExpr == Constant(BoolV(FALSE))

\* SafeEvalConfig
SafeEvalConfig(allowed_names, allowed_callables, allowed_attr_roots) ==
    [allowed_names |-> allowed_names, allowed_callables |-> allowed_callables,
     allowed_attr_roots |-> allowed_attr_roots]

\* helper recursion deeper than this ends in Python's RecursionError
MaxHelperDepth == 2

\* PricingState as a value of the environment
PricingV(st) == [t |-> "pricing", st |-> st]

\* the values added up instead of multiplied
RECURSIVE multipliers_product_sum(_)
multipliers_product_sum(ms) ==
    IF Len(ms) = 0 THEN DecV(1, 0)
    ELSE LET p == multipliers_product_sum(SubSeq(ms, 1, Len(ms) - 1))
             m == ms[Len(ms)].value
             e == Max(p.e, m.e)
         IN DecV(p.m * Pow10(e - p.e) + m.m * Pow10(e - m.e), e)

\* PricingState.multipliers_product
RECURSIVE multipliers_product(_)
multipliers_product(ms) ==
    IF Len(ms) = 0 THEN DecV(1, 0)
    ELSE LET p == multipliers_product(SubSeq(ms, 1, Len(ms) - 1))
             m == ms[Len(ms)].value
         IN DecV(p.m * m.m, p.e + m.e)

\* getattr(obj, attr)
GetAttr(obj, attr) ==
    CASE obj.t = "ns" -> Ret(IF attr \in DOMAIN obj.d THEN obj.d[attr] ELSE NullV)
      [] obj.t = "pricing" ->
            IF attr \in DOMAIN obj.st THEN Ret(obj.st[attr])
            ELSE IF attr = "multipliers_product"
                 THEN Ret(multipliers_product(obj.st.multipliers.l))
            ELSE IF attr = "breakdown" THEN Ret(FnV("PricingState.breakdown"))
            ELSE Raise("AttributeError")
      [] OTHER -> Raise("AttributeError")

\* -operand
Negate(v) ==
    CASE v.t = "int" -> Ret(IntV(0 - v.i))
      [] v.t = "dec" -> Ret(DecV(0 - v.m, v.e))
      [] v.t = "bool" -> Ret(IntV(IF v.b THEN -1 ELSE 0))
      [] OTHER -> Raise("TypeError")

\* Decimal(x)
DecimalOf(args) ==
    IF Len(args) # 1 THEN Raise("TypeError")
    ELSE LET x == args[1] IN
         CASE x.t = "str" -> IF DecimalParses(x.s) THEN Ret(ParseDecimal(x.s))
                             ELSE Raise("InvalidOperation")
           [] x.t = "int" -> Ret(DecV(x.i, 0))
           [] x.t = "bool" -> Ret(DecV(IF x.b THEN 1 ELSE 0, 0))
           [] x.t = "dec" -> Ret(x)
           [] OTHER -> Raise("TypeError")

\* round(x): to the nearest integer, ties to the even one
RoundHalfEven(m, e) ==
    LET p == Pow10(e)
        q == m \div p
        r == m - q * p
    IN IF 2 * r < p THEN q
       ELSE IF 2 * r > p THEN q + 1
       ELSE IF q % 2 = 0 THEN q ELSE q + 1

PyRound(args) ==
    IF Len(args) # 1 THEN Raise("RoundDigitsUnmodelled")
    ELSE LET x == args[1] IN
         CASE x.t = "dec" -> Ret(IntV(RoundHalfEven(x.m, x.e)))
           [] x.t = "int" -> Ret(x)
           [] x.t = "bool" -> Ret(IntV(IF x.b THEN 1 ELSE 0))
           [] OTHER -> Raise("TypeError")

\* total = ... in place of total += ...: the weight of the last id alone
SumWeights_last(cat, ids) ==
    IF Len(ids) = 0 THEN 0
    ELSE LET items == dictionary_items(cat, "DICT_RISKS")
             hit == {i \in DOMAIN items : items[i].id = ids[Len(ids)].s}
         IN IF hit = {} THEN 0 ELSE items[CHOOSE i \in hit : \A j \in hit : j <= i].weight

\* sumRiskWeights(catalog, *risk_arrays)
RECURSIVE SumWeights(_, _)
SumWeights(cat, ids) ==
    IF Len(ids) = 0 THEN 0
    ELSE LET items == dictionary_items(cat, "DICT_RISKS")
             hit == {i \in DOMAIN items : PyEq(StrV(items[i].id), ids[1])}
             \* a dict comprehension keeps the last item of an id
             w == IF hit = {} THEN 0
                  ELSE items[CHOOSE i \in hit : \A j \in hit : j <= i].weight
         IN w + SumWeights(cat, Tail(ids))

RECURSIVE sumRiskWeights(_, _)
sumRiskWeights(cat, risk_arrays) ==
    IF Len(risk_arrays) = 0 THEN Ret(IntV(0))
    ELSE LET arr == risk_arrays[1]
             rest == sumRiskWeights(cat, Tail(risk_arrays))
         IN IF rest.raised # "" THEN rest
            ELSE IF ~Truthy(arr) THEN rest
            ELSE IF arr.t = "str"
                 THEN Ret(IntV(SumWeights(cat, [i \in 1..Len(arr.s) |-> StrV(Char(arr.s, i))])
                               + rest.v.i))
            ELSE IF arr.t # "list" THEN Raise("TypeError")
            ELSE Ret(IntV(SumWeights(cat, arr.l) + rest.v.i))


-----------------------------------------------------------------------------
(* SafeEvaluator: cx carries the environment, the configuration, and what  *)
(* the helper closures of _pricing_env captured (catalog, answers, the     *)
(* PricingState object, params)                                            *)

\* the names every engine environment binds to the same callables
BaseEnv ==
    [Decimal |-> FnV("Decimal"), includes |-> FnV("includes"),
     anySelected |-> FnV("anySelected"), count |-> FnV("count"),
     coalesce |-> FnV("coalesce"), min |-> FnV("min")]

Merge(a, b) == [x \in (DOMAIN a) \cup (DOMAIN b) |-> IF x \in DOMAIN b THEN b[x] ELSE a[x]]

BaseCallables == {"Decimal", "includes", "anySelected", "count", "coalesce", "min"}
AttrRoots == {"answers", "computed", "params", "pricing"}

\* _pricing_env(catalog, answers, pricing, params)
_pricing_env(ans, pricing, params) ==
    Merge(BaseEnv,
          [answers |-> NsV(ans), computed |-> NsV(EmptyMap), params |-> NsV(params),
           pricing |-> PricingV(pricing), round |-> FnV("round"),
           sumRiskWeights |-> FnV("sumRiskWeights"),
           computeTariffTotal |-> FnV("computeTariffTotal"),
           computePremiumTotal |-> FnV("computePremiumTotal"),
           computeBreakdown |-> FnV("computeBreakdown")])

\* _pricing_cfg(env)
_pricing_cfg(env) ==
    SafeEvalConfig(DOMAIN env,
                   BaseCallables \cup {"round", "sumRiskWeights", "computeTariffTotal",
                                       "computePremiumTotal", "computeBreakdown"},
                   AttrRoots)

\* PricingState.breakdown()
breakdown(st) ==
    DictV([base_rate |-> StrV(PyStr(st.base_rate)),
           multipliers |->
               ListV([i \in DOMAIN st.multipliers.l |->
                         DictV([code |-> StrV(st.multipliers.l[i].code),
                                value |-> StrV(PyStr(st.multipliers.l[i].value)),
                                note |-> st.multipliers.l[i].note])]),
           multipliers_product |-> StrV(PyStr(multipliers_product(st.multipliers.l))),
           risk_weight_sum |-> st.risk_weight_sum,
           factor_per_risk_unit |-> StrV(PyStr(st.factor_per_risk_unit)),
           deductible_discount |-> StrV(PyStr(st.deductible_discount)),
           tariff_total |-> StrV(PyStr(st.tariff_total)),
           premium_total |-> st.premium_total])

\* int(value)
ToInt(v) ==
    CASE v.t = "int" -> Ret(v)
      [] v.t = "bool" -> Ret(IntV(IF v.b THEN 1 ELSE 0))
      [] v.t = "dec" -> Ret(IntV(IF v.m >= 0 THEN v.m \div Pow10(v.e)
                                 ELSE 0 - ((0 - v.m) \div Pow10(v.e))))
      [] v.t = "str" -> IF IntParses(v.s) THEN Ret(IntV(ParseInt(v.s))) ELSE Raise("ValueError")
      [] OTHER -> Raise("TypeError")

\* Decimal(str(value))
ToDecimal(v) ==
    CASE v.t = "dec" -> Ret(v)
      [] v.t = "int" -> Ret(DecV(v.i, 0))
      [] v.t = "float" -> Ret(DecV(v.m, v.e))
      [] v.t = "str" -> IF DecimalParses(v.s) THEN Ret(ParseDecimal(v.s))
                        ELSE Raise("InvalidOperation")
      [] OTHER -> Raise("InvalidOperation")

\* Decimal(str(...)) and int(...) of an evaluation's outcome r: what it raised goes on
AsDecimal(r) == IF r.raised # "" THEN r ELSE ToDecimal(r.v)
AsInt(r) == IF r.raised # "" THEN r ELSE ToInt(r.v)

\* every name passes
NameAllowed_any(id, cfg) == TRUE

\* visit_Name: node.id in self.cfg.allowed_names
NameAllowed(id, cfg) == id \in cfg.allowed_names

\* visit_Attribute: isinstance(node.value, ast.Name)
SimpleDotted(node) == node.value.k = "Name"

\* every root passes
AttrRootAllowed_any(root, cfg) == TRUE

\* visit_Attribute: root in self.cfg.allowed_attr_roots
AttrRootAllowed(root, cfg) == root \in cfg.allowed_attr_roots

\* visit_Call: isinstance(node.func, ast.Name)
DirectCall(node) == node.func.k = "Name"

\* visit_Call: fn_name in self.cfg.allowed_callables
CallAllowed(id, cfg) == id \in cfg.allowed_callables

RECURSIVE Visit(_, _), VisitAll(_, _), VisitAnd(_, _), VisitOr(_, _),
          VisitChain(_, _, _, _), CallFn(_, _, _), HelperEval(_, _)

\* SafeEvaluator.visit(node)
Visit(node, cx) ==
    CASE node.k = "Constant" -> Ret(node.value)
      [] node.k = "List" ->
            LET r == VisitAll(node.elts, cx) IN
            IF r.raised # "" THEN Raise(r.raised) ELSE Ret(ListV(r.v))
      [] node.k = "Name" ->
            IF ~NameAllowed(node.id, cx.cfg) THEN Raise("ValueError")
            ELSE IF node.id \notin DOMAIN cx.env THEN Raise("KeyError")
            ELSE Ret(cx.env[node.id])
      [] node.k = "Attribute" ->
            IF ~SimpleDotted(node) THEN Raise("ValueError")
            ELSE IF ~AttrRootAllowed(node.value.id, cx.cfg) THEN Raise("ValueError")
            ELSE LET obj == Visit(node.value, cx) IN
                 IF obj.raised # "" THEN obj ELSE GetAttr(obj.v, node.attr)
      [] node.k = "UnaryOp" ->
            LET operand == Visit(node.operand, cx) IN
            IF operand.raised # "" THEN operand
            ELSE IF node.op = "Not" THEN Ret(BoolV(~Truthy(operand.v)))
            ELSE IF node.op = "USub" THEN Negate(operand.v)
            ELSE Raise("ValueError")
      [] node.k = "BoolOp" ->
            IF node.op = "And" THEN VisitAnd(node.values, cx)
            ELSE IF node.op = "Or" THEN VisitOr(node.values, cx)
            ELSE Raise("ValueError")
      [] node.k = "BinOp" ->
            LET left == Visit(node.left, cx) IN
            IF left.raised # "" THEN left
            ELSE LET right == Visit(node.right, cx) IN
                 IF right.raised # "" THEN right
                 ELSE BinOp(node.op, left.v, right.v)
      [] node.k = "Compare" ->
            LET left == Visit(node.left, cx) IN
            IF left.raised # "" THEN left
            ELSE VisitChain(left.v, node.ops, node.comparators, cx)
      [] node.k = "IfExp" ->
            LET cond == Visit(node.test, cx) IN
            IF cond.raised # "" THEN cond
            ELSE Visit(IF Truthy(cond.v) THEN node.body ELSE node.orelse, cx)
      [] node.k = "Call" ->
            IF ~DirectCall(node) THEN Raise("ValueError")
            ELSE IF ~CallAllowed(node.func.id, cx.cfg) THEN Raise("ValueError")
            ELSE IF node.func.id \notin DOMAIN cx.env THEN Raise("KeyError")
            ELSE LET args == VisitAll(node.args, cx) IN
                 IF args.raised # "" THEN Raise(args.raised)
                 ELSE CallFn(cx.env[node.func.id], args.v, cx)
      [] OTHER -> Raise("ValueError")   \* generic_visit

\* [self.visit(a) for a in nodes]
VisitAll(nodes, cx) ==
    IF Len(nodes) = 0 THEN [raised |-> "", v |-> << >>]
    ELSE LET h == Visit(nodes[1], cx) IN
         IF h.raised # "" THEN [raised |-> h.raised, v |-> << >>]
         ELSE LET t == VisitAll(Tail(nodes), cx) IN
              IF t.raised # "" THEN t ELSE [raised |-> "", v |-> << h.v >> \o t.v]

\* visit_BoolOp, And: stop at the first falsy operand
VisitAnd(values, cx) ==
    IF Len(values) = 0 THEN Ret(BoolV(TRUE))
    ELSE LET h == Visit(values[1], cx) IN
         IF h.raised # "" THEN h
         ELSE IF ~Truthy(h.v) THEN Ret(BoolV(FALSE))
         ELSE VisitAnd(Tail(values), cx)

\* an Or that evaluates every operand before it answers
VisitOr_eager(values, cx) ==
    LET all == VisitAll(values, cx) IN
    IF all.raised # "" THEN Raise(all.raised)
    ELSE Ret(BoolV(\E i \in DOMAIN all.v : Truthy(all.v[i])))

\* visit_BoolOp, Or: stop at the first truthy operand
VisitOr(values, cx) ==
    IF Len(values) = 0 THEN Ret(BoolV(FALSE))
    ELSE LET h == Visit(values[1], cx) IN
         IF h.raised # "" THEN h
         ELSE IF Truthy(h.v) THEN Ret(BoolV(TRUE))
         ELSE VisitOr(Tail(values), cx)

\* visit_Compare: zip(ops, comparators), False at the first failing link
VisitChain(left, ops, comparators, cx) ==
    IF Len(ops) = 0 \/ Len(comparators) = 0 THEN Ret(BoolV(TRUE))
    ELSE LET right == Visit(comparators[1], cx) IN
         IF right.raised # "" THEN right
         ELSE LET ok == CompareOp(ops[1], left, right.v) IN
              IF ok.raised # "" THEN ok
              ELSE IF ~Truthy(ok.v) THEN Ret(BoolV(FALSE))
              ELSE VisitChain(right.v, Tail(ops), Tail(comparators), cx)

\* fn(*args) for the callables an environment can hold
CallFn(fn, args, cx) ==
    IF fn.t # "fn" THEN Raise("TypeError")
    ELSE CASE fn.name = "Decimal" -> DecimalOf(args)
           [] fn.name = "includes" ->
                 IF Len(args) # 2 THEN Raise("TypeError")
                 ELSE Ret(BoolV(includes(args[1], args[2])))
           [] fn.name = "anySelected" ->
                 IF Len(args) # 1 THEN Raise("TypeError") ELSE anySelected(args[1])
           [] fn.name = "count" ->
                 IF Len(args) # 1 THEN Raise("TypeError") ELSE count(args[1])
           [] fn.name = "coalesce" -> Ret(coalesce(args))
           [] fn.name = "min" -> PyMin(args)
           [] fn.name = "round" -> PyRound(args)
           [] fn.name = "sumRiskWeights" -> sumRiskWeights(cx.cat, args)
           [] fn.name = "computeTariffTotal" ->
                 IF Len(args) # 0 THEN Raise("TypeError")
                 ELSE AsDecimal(HelperEval(cx.cat.pricing.tariff_formula.tariff_total_expr,
                                           cx))
           [] fn.name = "computePremiumTotal" ->
                 IF Len(args) # 0 THEN Raise("TypeError")
                 ELSE AsInt(HelperEval(cx.cat.pricing.tariff_formula.premium_total_expr, cx))
           [] fn.name = "computeBreakdown" ->
                 IF Len(args) # 0 THEN Raise("TypeError") ELSE Ret(breakdown(cx.captured))
           [] OTHER -> Raise("TypeError")

\* _computeTariffTotal / _computePremiumTotal: safe_eval of a formula in a fresh
\* _pricing_env over the PricingState the closure captured
HelperEval(expr, cx) ==
    IF cx.depth = 0 THEN Raise("RecursionError")
    ELSE LET env == _pricing_env(cx.answers, cx.captured, cx.params) IN
         Visit(expr, [cx EXCEPT !.env = env, !.cfg = _pricing_cfg(env),
                                !.depth = cx.depth - 1])

\* safe_eval(expr, env, cfg), expr already parsed
safe_eval(expr, cx) == Visit(expr, cx)

\* what an evaluation does, as events: visit(node) was called; env[id] was read
\* for a name reference or for the callee of a call; the callable env[id] was called
Visited(node) == [ev |-> "visit", node |-> node]
ReadName(id) == [ev |-> "read", id |-> id]
ReadCallee(id) == [ev |-> "callee", id |-> id]
Invoked(id) == [ev |-> "invoke", id |-> id]

RECURSIVE Trace(_, _), TraceAll(_, _), TraceBool(_, _, _), TraceChain(_, _, _, _)

\* the events of SafeEvaluator.visit(node), in the order of the code: an operand is
\* visited when the ones before it neither raised nor decided the result
Trace(node, cx) ==
    {Visited(node)} \cup
    CASE node.k = "List" -> TraceAll(node.elts, cx)
      [] node.k = "Name" ->
            IF NameAllowed(node.id, cx.cfg) /\ node.id \in DOMAIN cx.env
            THEN {ReadName(node.id)} ELSE {}
      [] node.k = "Attribute" ->
            IF SimpleDotted(node) /\ AttrRootAllowed(node.value.id, cx.cfg)
            THEN Trace(node.value, cx) ELSE {}
      [] node.k = "UnaryOp" -> Trace(node.operand, cx)
      [] node.k = "BoolOp" ->
            IF node.op \in {"And", "Or"} THEN TraceBool(node.values, cx, node.op = "Or")
            ELSE {}
      [] node.k = "BinOp" ->
            Trace(node.left, cx) \cup
            (IF Visit(node.left, cx).raised = "" THEN Trace(node.right, cx) ELSE {})
      [] node.k = "Compare" ->
            Trace(node.left, cx) \cup
            (IF Visit(node.left, cx).raised = ""
             THEN TraceChain(Visit(node.left, cx).v, node.ops, node.comparators, cx)
             ELSE {})
      [] node.k = "IfExp" ->
            Trace(node.test, cx) \cup
            (IF Visit(node.test, cx).raised # "" THEN {}
             ELSE IF Truthy(Visit(node.test, cx).v) THEN Trace(node.body, cx)
             ELSE Trace(node.orelse, cx))
      [] node.k = "Call" ->
            IF ~DirectCall(node) \/ ~CallAllowed(node.func.id, cx.cfg)
               \/ node.func.id \notin DOMAIN cx.env
            THEN {}
            ELSE {ReadCallee(node.func.id)} \cup TraceAll(node.args, cx) \cup
                 (IF VisitAll(node.args, cx).raised = "" THEN {Invoked(node.func.id)}
                  ELSE {})
      [] OTHER -> {}

\* [self.visit(a) for a in nodes]
TraceAll(nodes, cx) ==
    IF Len(nodes) = 0 THEN {}
    ELSE Trace(nodes[1], cx) \cup
         (IF Visit(nodes[1], cx).raised = "" THEN TraceAll(Tail(nodes), cx) ELSE {})

\* visit_BoolOp: the loop ends at the first truthy operand of an Or, falsy of an And
TraceBool(values, cx, stop) ==
    IF Len(values) = 0 THEN {}
    ELSE Trace(values[1], cx) \cup
         (IF Visit(values[1], cx).raised = "" /\ Truthy(Visit(values[1], cx).v) # stop
          THEN TraceBool(Tail(values), cx, stop) ELSE {})

\* visit_Compare: the loop ends at the first link that fails
TraceChain(left, ops, comparators, cx) ==
    IF Len(ops) = 0 \/ Len(comparators) = 0 THEN {}
    ELSE Trace(comparators[1], cx) \cup
         (IF Visit(comparators[1], cx).raised = ""
             /\ CompareOp(ops[1], left, Visit(comparators[1], cx).v).raised = ""
             /\ Truthy(CompareOp(ops[1], left, Visit(comparators[1], cx).v).v)
          THEN TraceChain(Visit(comparators[1], cx).v, Tail(ops), Tail(comparators), cx)
          ELSE {})

-----------------------------------------------------------------------------
(* The text of an expression: app/services/expression.py turns the          *)
(* JavaScript-like source into Python source, ast.parse reads that, and     *)
(* SafeEvaluator visits the tree. Positions in a text count from 1 here.    *)

\* what _find_top_level_ternary returns: None, or the positions of '?' and ':'
NoTernary == [found |-> FALSE, q |-> 0, c |-> 0]
TernaryAt(q, c) == [found |-> TRUE, q |-> q, c |-> c]

\* ch == "'" and (i == 0 or expr[i - 1] != "\\")
OpensOrCloses(expr, i) ==
    Char(expr, i) = "'" /\ (i = 1 \/ Char(expr, i - 1) # "\\")

\* the loop of _find_top_level_ternary from position i on; q_pos = 0 stands for None
RECURSIVE FindTernary(_, _, _, _, _, _)
FindTernary(expr, i, depth, in_str, q_pos, nested_q) ==
    IF i > Len(expr) THEN NoTernary
    ELSE LET ch == Char(expr, i)
             str == IF OpensOrCloses(expr, i) THEN ~in_str ELSE in_str
         IN IF str THEN FindTernary(expr, i + 1, depth, str, q_pos, nested_q)
            ELSE IF ch = "(" THEN FindTernary(expr, i + 1, depth + 1, str, q_pos, nested_q)
            ELSE IF ch = ")" THEN FindTernary(expr, i + 1, depth - 1, str, q_pos, nested_q)
            ELSE IF depth = 0 /\ ch = "?"
                 THEN IF q_pos = 0 THEN FindTernary(expr, i + 1, depth, str, i, nested_q)
                      ELSE FindTernary(expr, i + 1, depth, str, q_pos, nested_q + 1)
            ELSE IF depth = 0 /\ ch = ":" /\ q_pos # 0
                 THEN IF nested_q = 0 THEN TernaryAt(q_pos, i)
                      ELSE FindTernary(expr, i + 1, depth, str, q_pos, nested_q - 1)
            ELSE FindTernary(expr, i + 1, depth, str, q_pos, nested_q)

\* _find_top_level_ternary(expr)
_find_top_level_ternary(expr) == FindTernary(expr, 1, 0, FALSE, 0, 0)

\* convert_ternary(expr)
RECURSIVE convert_ternary(_)
convert_ternary(expr0) ==
    LET expr == Strip(expr0)
        loc == _find_top_level_ternary(expr)
    IN IF ~loc.found THEN expr
       ELSE LET cond == convert_ternary(SubSeq(expr, 1, loc.q - 1))
                a == convert_ternary(SubSeq(expr, loc.q + 1, loc.c - 1))
                b == convert_ternary(SubSeq(expr, loc.c + 1, Len(expr)))
            IN "(" \o a \o " if " \o cond \o " else " \o b \o ")"

Letters == "abcdefghijklmnopqrstuvwxyzABCDEFGHIJKLMNOPQRSTUVWXYZ"

IsLetter(c) == \E i \in 1..Len(Letters) : Char(Letters, i) = c

\* \w of a regular expression
IsWordChar(c) == IsLetter(c) \/ IsDigit(c) \/ c = "_"

\* s[i:].startswith(w)
StartsAt(s, i, w) == i + Len(w) - 1 <= Len(s) /\ SubSeq(s, i, i + Len(w) - 1) = w

\* \b(w)\b matches at position i
WordAt(s, i, w) ==
    /\ StartsAt(s, i, w)
    /\ (i = 1 \/ ~IsWordChar(Char(s, i - 1)))
    /\ (i + Len(w) > Len(s) \/ ~IsWordChar(Char(s, i + Len(w))))

\* _JS_NULLS
_JS_NULLS == [null |-> "None", true |-> "True", false |-> "False"]

\* re.sub(r"\b(null|true|false)\b", repl_kw, s), from position i on
RECURSIVE ReplaceKeywords(_, _)
ReplaceKeywords(s, i) ==
    IF i > Len(s) THEN ""
    ELSE IF \E w \in DOMAIN _JS_NULLS : WordAt(s, i, w)
         THEN LET w == CHOOSE w \in DOMAIN _JS_NULLS : WordAt(s, i, w)
              IN _JS_NULLS[w] \o ReplaceKeywords(s, i + Len(w))
    ELSE Char(s, i) \o ReplaceKeywords(s, i + 1)

\* s.replace(old, new), from position i on
RECURSIVE ReplaceAll(_, _, _, _)
ReplaceAll(s, i, old, new) ==
    IF i > Len(s) THEN ""
    ELSE IF StartsAt(s, i, old) THEN new \o ReplaceAll(s, i + Len(old), old, new)
    ELSE Char(s, i) \o ReplaceAll(s, i + 1, old, new)

\* re.sub(r"!([^=])", r" not \1", s), from position i on: the match takes the
\* character after the '!' with it
RECURSIVE ReplaceNot(_, _)
ReplaceNot(s, i) ==
    IF i > Len(s) THEN ""
    ELSE IF Char(s, i) = "!" /\ i < Len(s) /\ Char(s, i + 1) # "="
         THEN " not " \o Char(s, i + 1) \o ReplaceNot(s, i + 2)
    ELSE Char(s, i) \o ReplaceNot(s, i + 1)

\* the end of the run of digits and points that starts at i
RECURSIVE NumberEnd(_, _)
NumberEnd(expr, j) ==
    IF j <= Len(expr) /\ (IsDigit(Char(expr, j)) \/ Char(expr, j) = ".")
    THEN NumberEnd(expr, j + 1) ELSE j

\* the loop of _wrap_numbers_as_decimal from position i on
RECURSIVE WrapNumbers(_, _, _)
WrapNumbers(expr, i, in_str) ==
    IF i > Len(expr) THEN ""
    ELSE LET ch == Char(expr, i) IN
         IF OpensOrCloses(expr, i) THEN ch \o WrapNumbers(expr, i + 1, ~in_str)
         ELSE IF in_str THEN ch \o WrapNumbers(expr, i + 1, in_str)
         ELSE IF IsDigit(ch)
              THEN LET j == NumberEnd(expr, i) IN
                   "Decimal('" \o SubSeq(expr, i, j - 1) \o "')" \o WrapNumbers(expr, j, in_str)
         ELSE ch \o WrapNumbers(expr, i + 1, in_str)

\* _wrap_numbers_as_decimal(expr)
_wrap_numbers_as_decimal(expr) == WrapNumbers(expr, 1, FALSE)

\* js_to_python(expr)
js_to_python(expr) ==
    LET s1 == ReplaceKeywords(Strip(expr), 1)
        s2 == convert_ternary(s1)
        s3 == ReplaceAll(s2, 1, "===", "==")
        s4 == ReplaceAll(s3, 1, "&&", " and ")
        s5 == ReplaceAll(s4, 1, "||", " or ")
        s6 == ReplaceNot(s5, 1)
        s7 == ReplaceAll(s6, 1, "Math.min", "min")
    IN _wrap_numbers_as_decimal(s7)

-----------------------------------------------------------------------------
(* ast.parse(py, mode="eval"), for the part of Python's expression grammar  *)
(* the transpiled texts use: conditional, or, and, not, comparisons, the    *)
(* arithmetic operators, calls, dotted access, lists, names and literals.   *)
(* A text with one of the remaining constructs is reported as Unmodelled.   *)

Token(k, s) == [k |-> k, s |-> s]

\* the end of the run of name characters that starts at i
RECURSIVE WordEnd(_, _)
WordEnd(s, j) == IF j <= Len(s) /\ IsWordChar(Char(s, j)) THEN WordEnd(s, j + 1) ELSE j

\* the position of the quote that closes the string opened before i, 0 if none
RECURSIVE StringEnd(_, _)
StringEnd(s, j) ==
    IF j > Len(s) THEN 0
    ELSE IF Char(s, j) = "\\" THEN StringEnd(s, j + 2)
    ELSE IF Char(s, j) = "'" THEN j
    ELSE StringEnd(s, j + 1)

\* the characters of a string literal's body, escapes resolved
RECURSIVE Unescape(_)
Unescape(s) ==
    IF Len(s) = 0 THEN ""
    ELSE IF Char(s, 1) = "\\" /\ Len(s) >= 2
         THEN Char(s, 2) \o Unescape(SubSeq(s, 3, Len(s)))
    ELSE Char(s, 1) \o Unescape(SubSeq(s, 2, Len(s)))

TwoCharOps == {"==", "!=", "<=", ">=", "**", "//", "<<", ">>", ":="}
OneCharOps == {"(", ")", "[", "]", "{", "}", ",", ".", ":", "+", "-", "*", "/", "<", ">",
               "%", "=", "&", "|", "^", "~", "@"}

\* the tokens of the text from position i on; a character no token starts with
\* gives a "bad" token
RECURSIVE Tokenize(_, _)
Tokenize(s, i) ==
    IF i > Len(s) THEN << >>
    ELSE LET ch == Char(s, i) IN
         IF ch = " " THEN Tokenize(s, i + 1)
         ELSE IF IsLetter(ch) \/ ch = "_"
              THEN LET j == WordEnd(s, i) IN
                   << Token("name", SubSeq(s, i, j - 1)) >> \o Tokenize(s, j)
         ELSE IF IsDigit(ch)
              THEN LET j == NumberEnd(s, i) IN
                   << Token("num", SubSeq(s, i, j - 1)) >> \o Tokenize(s, j)
         ELSE IF ch = "'"
              THEN LET j == StringEnd(s, i + 1) IN
                   IF j = 0 THEN << Token("bad", ch) >>
                   ELSE << Token("str", Unescape(SubSeq(s, i + 1, j - 1))) >>
                        \o Tokenize(s, j + 1)
         ELSE IF i < Len(s) /\ SubSeq(s, i, i + 1) \in TwoCharOps
              THEN << Token("op", SubSeq(s, i, i + 1)) >> \o Tokenize(s, i + 2)
         ELSE IF ch \in OneCharOps THEN << Token("op", ch) >> \o Tokenize(s, i + 1)
         ELSE << Token("bad", ch) >>

\* words the grammar reserves
Keywords == {"if", "else", "and", "or", "not", "in", "is", "lambda", "for", "await",
             "None", "True", "False"}

\* what the tokens may hold that is outside the modelled grammar
UnmodelledTokens ==
    {Token("op", o) : o \in {"{", "}", "**", "<<", ">>", ":=", "&", "|", "^",
                             "~", "@", "="}}
    \cup {Token("name", w) : w \in {"lambda", "for", "await", "in", "is"}}

TokAt(toks, p) == IF p <= Len(toks) THEN toks[p] ELSE Token("end", "")
IsOp(toks, p, o) == TokAt(toks, p) = Token("op", o)
IsWord(toks, p, w) == TokAt(toks, p) = Token("name", w)

Parsed(node, pos) == [err |-> "", node |-> node, pos |-> pos]
NoParse == [err |-> "SyntaxError", node |-> NullV, pos |-> 0]

CompareOps ==
    [x \in {"==", "!=", "<", ">", "<=", ">="} |->
        CASE x = "==" -> "Eq" [] x = "!=" -> "NotEq" [] x = "<" -> "Lt"
          [] x = ">" -> "Gt" [] x = "<=" -> "LtE" [] x = ">=" -> "GtE"]
ArithOps == [x \in {"+", "-"} |-> IF x = "+" THEN "Add" ELSE "Sub"]
TermOps ==
    [x \in {"*", "/", "%", "//"} |->
        CASE x = "*" -> "Mult" [] x = "/" -> "Div" [] x = "%" -> "Mod"
          [] x = "//" -> "FloorDiv"]

IsOpOf(toks, p, ops) == TokAt(toks, p).k = "op" /\ TokAt(toks, p).s \in DOMAIN ops

\* r, worked out once, handed to K
Bind(r, K(_)) == CHOOSE y \in {K(x) : x \in {r}} : TRUE

Unmodelled == [err |-> "Unmodelled", node |-> NullV, pos |-> 0]

RECURSIVE ParseTest(_, _), ParseOr(_, _), ParseOrRest(_, _, _), ParseAnd(_, _),
          ParseAndRest(_, _, _), ParseNot(_, _), ParseComparison(_, _),
          ParseChain(_, _, _, _, _), ParseArith(_, _), ParseArithRest(_, _, _),
          ParseTerm(_, _), ParseTermRest(_, _, _), ParseFactor(_, _),
          ParseTrailers(_, _, _), ParseArgs(_, _, _, _), ParseAtom(_, _)

\* test: or_test ['if' or_test 'else' test]
ParseTest(toks, p) ==
    Bind(ParseOr(toks, p), LAMBDA body :
        IF body.err # "" \/ ~IsWord(toks, body.pos, "if") THEN body
        ELSE Bind(ParseOr(toks, body.pos + 1), LAMBDA test :
            IF test.err # "" THEN test
            ELSE IF ~IsWord(toks, test.pos, "else") THEN NoParse
            ELSE Bind(ParseTest(toks, test.pos + 1), LAMBDA orelse :
                IF orelse.err # "" THEN orelse
                ELSE Parsed(IfExp(test.node, body.node, orelse.node), orelse.pos))))

\* or_test: and_test ('or' and_test)*, one BoolOp for the whole run
ParseOr(toks, p) ==
    Bind(ParseAnd(toks, p), LAMBDA h :
        IF h.err # "" \/ ~IsWord(toks, h.pos, "or") THEN h
        ELSE ParseOrRest(toks, h.pos, << h.node >>))

ParseOrRest(toks, p, values) ==
    IF ~IsWord(toks, p, "or") THEN Parsed(BoolOp("Or", values), p)
    ELSE Bind(ParseAnd(toks, p + 1), LAMBDA h :
        IF h.err # "" THEN h ELSE ParseOrRest(toks, h.pos, Append(values, h.node)))

\* and_test: not_test ('and' not_test)*
ParseAnd(toks, p) ==
    Bind(ParseNot(toks, p), LAMBDA h :
        IF h.err # "" \/ ~IsWord(toks, h.pos, "and") THEN h
        ELSE ParseAndRest(toks, h.pos, << h.node >>))

ParseAndRest(toks, p, values) ==
    IF ~IsWord(toks, p, "and") THEN Parsed(BoolOp("And", values), p)
    ELSE Bind(ParseNot(toks, p + 1), LAMBDA h :
        IF h.err # "" THEN h ELSE ParseAndRest(toks, h.pos, Append(values, h.node)))

\* not_test: 'not' not_test | comparison
ParseNot(toks, p) ==
    IF IsWord(toks, p, "not")
    THEN Bind(ParseNot(toks, p + 1), LAMBDA operand :
        IF operand.err # "" THEN operand
        ELSE Parsed(UnaryOp("Not", operand.node), operand.pos))
    ELSE ParseComparison(toks, p)

\* comparison: expr (comp_op expr)*, one Compare for the whole chain
ParseComparison(toks, p) ==
    Bind(ParseArith(toks, p), LAMBDA left :
        IF left.err # "" \/ ~IsOpOf(toks, left.pos, CompareOps) THEN left
        ELSE ParseChain(toks, left.pos, left.node, << >>, << >>))

ParseChain(toks, p, left, ops, comparators) ==
    IF ~IsOpOf(toks, p, CompareOps) THEN Parsed(Compare(left, ops, comparators), p)
    ELSE Bind(ParseArith(toks, p + 1), LAMBDA right :
        IF right.err # "" THEN right
        ELSE ParseChain(toks, right.pos, left, Append(ops, CompareOps[toks[p].s]),
                        Append(comparators, right.node)))

\* arith_expr: term (('+'|'-') term)*, grouping to the left
ParseArith(toks, p) ==
    Bind(ParseTerm(toks, p), LAMBDA left :
        IF left.err # "" THEN left ELSE ParseArithRest(toks, left.pos, left.node))

ParseArithRest(toks, p, left) ==
    IF ~IsOpOf(toks, p, ArithOps) THEN Parsed(left, p)
    ELSE Bind(ParseTerm(toks, p + 1), LAMBDA right :
        IF right.err # "" THEN right
        ELSE ParseArithRest(toks, right.pos,
                            BinOpNode(ArithOps[toks[p].s], left, right.node)))

\* term: factor (('*'|'/'|'%'|'//') factor)*
ParseTerm(toks, p) ==
    Bind(ParseFactor(toks, p), LAMBDA left :
        IF left.err # "" THEN left ELSE ParseTermRest(toks, left.pos, left.node))

ParseTermRest(toks, p, left) ==
    IF ~IsOpOf(toks, p, TermOps) THEN Parsed(left, p)
    ELSE Bind(ParseFactor(toks, p + 1), LAMBDA right :
        IF right.err # "" THEN right
        ELSE ParseTermRest(toks, right.pos,
                           BinOpNode(TermOps[toks[p].s], left, right.node)))

\* factor: ('+'|'-') factor | atom trailer*
ParseFactor(toks, p) ==
    IF IsOp(toks, p, "-") \/ IsOp(toks, p, "+")
    THEN Bind(ParseFactor(toks, p + 1), LAMBDA operand :
        IF operand.err # "" THEN operand
        ELSE Parsed(UnaryOp(IF IsOp(toks, p, "-") THEN "USub" ELSE "UAdd", operand.node),
                    operand.pos))
    ELSE Bind(ParseAtom(toks, p), LAMBDA atom :
        IF atom.err # "" THEN atom ELSE ParseTrailers(toks, atom.pos, atom.node))

\* trailer: '(' [arglist] ')' | '[' test ']' | '.' NAME
ParseTrailers(toks, p, node) ==
    IF IsOp(toks, p, ".")
    THEN IF TokAt(toks, p + 1).k # "name" \/ TokAt(toks, p + 1).s \in Keywords THEN NoParse
         ELSE ParseTrailers(toks, p + 2, Attribute(node, toks[p + 1].s))
    ELSE IF IsOp(toks, p, "(")
    THEN Bind(ParseArgs(toks, p + 1, << >>, ")"), LAMBDA args :
        IF args.err # "" THEN args
        ELSE ParseTrailers(toks, args.pos, Call(node, args.node)))
    ELSE IF IsOp(toks, p, "[")
    THEN Bind(ParseTest(toks, p + 1), LAMBDA index :
        IF index.err # "" THEN index
        ELSE IF IsOp(toks, index.pos, "]")
             THEN ParseTrailers(toks, index.pos + 1, Subscript(node, index.node))
        ELSE IF IsOp(toks, index.pos, ",") \/ IsOp(toks, index.pos, ":") THEN Unmodelled
        ELSE NoParse)
    ELSE Parsed(node, p)

\* the comma-separated expressions up to the closing token; a comma may end them
ParseArgs(toks, p, args, close) ==
    IF IsOp(toks, p, close) THEN Parsed(args, p + 1)
    ELSE Bind(ParseTest(toks, p), LAMBDA a :
        IF a.err # "" THEN a
        ELSE IF IsOp(toks, a.pos, ",")
             THEN ParseArgs(toks, a.pos + 1, Append(args, a.node), close)
        ELSE IF IsOp(toks, a.pos, close) THEN Parsed(Append(args, a.node), a.pos + 1)
        ELSE NoParse)

\* atom: NAME | NUMBER | STRING+ | 'None' | 'True' | 'False' | '(' test ')' | '[' ... ']'
ParseAtom(toks, p) ==
    Bind(TokAt(toks, p), LAMBDA tok :
    CASE tok.k = "name" ->
            IF tok.s = "None" THEN Parsed(Constant(NullV), p + 1)
            ELSE IF tok.s = "True" THEN Parsed(Constant(BoolV(TRUE)), p + 1)
            ELSE IF tok.s = "False" THEN Parsed(Constant(BoolV(FALSE)), p + 1)
            ELSE IF tok.s \in Keywords THEN NoParse
            ELSE Parsed(Name(tok.s), p + 1)
      [] tok.k = "num" ->
            IF AllDigits(tok.s) /\ (Len(tok.s) = 1 \/ Char(tok.s, 1) # "0")
            THEN Parsed(Constant(IntV(DigitsToNat(tok.s))), p + 1)
            ELSE Unmodelled
      [] tok.k = "str" ->
            IF TokAt(toks, p + 1).k = "str"
            THEN Bind(ParseAtom(toks, p + 1), LAMBDA rest :
                 Parsed(Constant(StrV(tok.s \o rest.node.value.s)), rest.pos))
            ELSE Parsed(Constant(StrV(tok.s)), p + 1)
      [] tok = Token("op", "(") ->
            Bind(ParseTest(toks, p + 1), LAMBDA inner :
                IF inner.err # "" THEN inner
                ELSE IF IsOp(toks, inner.pos, ")") THEN Parsed(inner.node, inner.pos + 1)
                ELSE IF IsOp(toks, inner.pos, ",") THEN Unmodelled
                ELSE NoParse)
      [] tok = Token("op", "[") ->
            Bind(ParseArgs(toks, p + 1, << >>, "]"), LAMBDA elts :
                IF elts.err # "" THEN elts ELSE Parsed(ListNode(elts.node), elts.pos))
      [] OTHER -> NoParse)

\* what ast.parse makes of the tokens
ParseTokens(toks) ==
    IF \E i \in DOMAIN toks : toks[i].k = "bad" THEN Raise("SyntaxError")
    ELSE IF \E i \in DOMAIN toks : toks[i] \in UnmodelledTokens THEN Raise("Unmodelled")
    ELSE Bind(ParseTest(toks, 1), LAMBDA r :
        IF r.err # "" THEN Raise(r.err)
        ELSE IF r.pos <= Len(toks) THEN Raise("SyntaxError")
        ELSE Ret(r.node))

\* ast.parse(py, mode="eval").body, or what it raises; text that begins with a
\* blank is an IndentationError, which is a SyntaxError
ast_parse(py) ==
    IF Len(py) > 0 /\ Char(py, 1) = " " THEN Raise("SyntaxError")
    ELSE Bind(Tokenize(py, 1), LAMBDA toks : ParseTokens(toks))

\* safe_eval(expr, env, cfg) of a source text
safe_eval_text(expr, cx) ==
    LET tree == ast_parse(js_to_python(expr)) IN
    IF tree.raised # "" THEN tree ELSE Visit(tree.v, cx)


-----------------------------------------------------------------------------
(* Rules of the catalog, and app/services/rules.py                         *)

\* a key the JSON object does not have
Absent == [k |-> "Absent", t |-> "absent"]

\* {"op": "set_visible", "field_id": ..., "value": ...} or with "value_expr"
SetVisible(field_id, value) ==
    [op |-> "set_visible", field_id |-> field_id, value |-> value, value_expr |-> Absent]
SetVisibleExpr(field_id, value_expr) ==
    [op |-> "set_visible", field_id |-> field_id, value |-> NullV, value_expr |-> value_expr]
\* an operation compute_visibility does not know
OtherOp(field_id) ==
    [op |-> "set_required", field_id |-> field_id, value |-> BoolV(FALSE), value_expr |-> Absent]

VisibilityRule(when, then, else) ==
    [type |-> "visibility", when |-> when, then |-> then, else |-> else]

\* Catalog.rules()
rules(cat) == cat.rules

\* rule.get("when", "true")
WhenExpr(rule) == IF rule.when.k = "Absent" THEN TrueExpr ELSE rule.when

\* the environment and configuration compute_visibility builds
VisibilityCx(cat, ans, computed) ==
    LET env == Merge(BaseEnv, [answers |-> NsV(ans), computed |-> NsV(computed),
                               params |-> NsV(EmptyMap), pricing |-> NsV(EmptyMap)])
    IN [env |-> env,
        cfg |-> SafeEvalConfig(DOMAIN env, BaseCallables, AttrRoots),
        cat |-> cat, answers |-> ans, params |-> EmptyMap, captured |-> EmptyMap,
        depth |-> 0]

\* if rule.get("type") != "visibility": continue
IsVisibilityRule(rule) == rule.type = "visibility"

\* every field starts hidden
AllVisible_hidden(cat) == [fid \in FieldIds(cat) |-> FALSE]

\* visible = {f["field_id"]: True for f in catalog.fields()}
AllVisible(cat) == [fid \in FieldIds(cat) |-> TRUE]

\* the branches taken the wrong way round
BranchOps_swapped(rule, cond) == IF cond THEN rule.else ELSE rule.then

\* ops = rule.get("then", []) if cond else rule.get("else", [])
BranchOps(rule, cond) == IF cond THEN rule.then ELSE rule.else

\* a write that composes with the earlier decision instead of replacing it
ApplyVisibilityOp_sticky(vis, op, cx) ==
    IF op.op # "set_visible" THEN [raised |-> "", visible |-> vis]
    ELSE IF op.value_expr.k # "Absent"
         THEN LET r == safe_eval(op.value_expr, cx) IN
              IF r.raised # "" THEN [raised |-> r.raised, visible |-> vis]
              ELSE [raised |-> "",
                    visible |-> Put(vis, op.field_id,
                                    (op.field_id \in DOMAIN vis => vis[op.field_id])
                                    /\ Truthy(r.v))]
         ELSE [raised |-> "",
               visible |-> Put(vis, op.field_id,
                               (op.field_id \in DOMAIN vis => vis[op.field_id])
                               /\ Truthy(op.value))]

\* one iteration of "for op in ops": the map after the operation, or what it raised
ApplyVisibilityOp(vis, op, cx) ==
    IF op.op # "set_visible" THEN [raised |-> "", visible |-> vis]
    ELSE IF op.value_expr.k # "Absent"
         THEN LET r == safe_eval(op.value_expr, cx) IN
              IF r.raised # "" THEN [raised |-> r.raised, visible |-> vis]
              ELSE [raised |-> "", visible |-> Put(vis, op.field_id, Truthy(r.v))]
         ELSE [raised |-> "", visible |-> Put(vis, op.field_id, Truthy(op.value))]

RECURSIVE ApplyVisibilityOps(_, _, _)

\* the loop "for op in ops" behind its first operation, whose outcome is r
ApplyVisibilityRest(r, ops, cx) ==
    IF r.raised # "" THEN r ELSE ApplyVisibilityOps(r.visible, Tail(ops), cx)

ApplyVisibilityOps(vis, ops, cx) ==
    IF Len(ops) = 0 THEN [raised |-> "", visible |-> vis]
    ELSE ApplyVisibilityRest(ApplyVisibilityOp(vis, ops[1], cx), ops, cx)

\* a visibility rule whose condition came out as cond
ApplyVisibilityBranch(vis, rule, cx, cond) ==
    IF cond.raised # "" THEN [raised |-> cond.raised, visible |-> vis]
    ELSE ApplyVisibilityOps(vis, BranchOps(rule, Truthy(cond.v)), cx)

\* one iteration of "for rule in catalog.rules()"
ApplyVisibilityRule(vis, rule, cx) ==
    IF ~IsVisibilityRule(rule) THEN [raised |-> "", visible |-> vis]
    ELSE ApplyVisibilityBranch(vis, rule, cx, safe_eval(WhenExpr(rule), cx))

RECURSIVE VisibilityLoop(_, _, _)

\* the loop over the rules behind its first rule, whose outcome is r
VisibilityRest(r, rs, cx) ==
    IF r.raised # "" THEN r ELSE VisibilityLoop(r.visible, Tail(rs), cx)

VisibilityLoop(vis, rs, cx) ==
    IF Len(rs) = 0 THEN [raised |-> "", visible |-> vis]
    ELSE VisibilityRest(ApplyVisibilityRule(vis, rs[1], cx), rs, cx)

\* compute_visibility(catalog, answers, computed)
compute_visibility(cat, ans, computed) ==
    VisibilityLoop(AllVisible(cat), rules(cat), VisibilityCx(cat, ans, computed))

\* nothing is dropped
clear_invisible_answers_kept(ans, vis) == ans

\* clear_invisible_answers(answers, visible)
clear_invisible_answers(ans, vis) ==
    [fid \in {k \in DOMAIN ans : ~(k \in DOMAIN vis /\ ~vis[k])} |-> ans[fid]]


-----------------------------------------------------------------------------
(* app/domain/pricing.py and app/services/pricing.py                       *)

\* PricingState()
PricingState ==
    [base_rate |-> DecV(0, 0), factor_per_risk_unit |-> DecV(0, 0),
     risk_weight_sum |-> IntV(0), deductible_discount |-> DecV(0, 0),
     multipliers |-> ListV(<< >>), tariff_total |-> DecV(0, 0), premium_total |-> IntV(0)]

\* PricingMultiplier(code, value, note)
PricingMultiplier(code, value, note) ==
    [t |-> "multiplier", code |-> code, value |-> value, note |-> note]

\* the operations of a pricing rule
PricingReset == [op |-> "pricing_reset"]
PricingSet(key, value_expr) == [op |-> "pricing_set", key |-> key, value_expr |-> value_expr]
PricingAddMultiplier(code, multiplier_expr, note_expr) ==
    [op |-> "pricing_add_multiplier", code |-> code, multiplier_expr |-> multiplier_expr,
     note_expr |-> note_expr]
PricingCompute(outputs) == [op |-> "pricing_compute", outputs |-> outputs]
\* an output mapping: the text of value_expr and its parse
Output(target_field_id, text, value_expr) ==
    [target_field_id |-> target_field_id, text |-> text, value_expr |-> value_expr]

PricingRule(when, then) == [type |-> "pricing", when |-> when, then |-> then, else |-> << >>]

\* build_params(catalog)
build_params(cat) ==
    LET ps == cat.pricing.parameters IN
    [key \in {ps[i].key : i \in DOMAIN ps} |->
        LET last == CHOOSE i \in DOMAIN ps :
                        ps[i].key = key /\ \A j \in DOMAIN ps : ps[j].key = key => j <= i
        IN IF ps[last].default.t = "null" THEN DecV(0, 0)
           ELSE DecV(Mant(ps[last].default), Expo(ps[last].default))]

\* the environment of compute_computed
ComputedCx(cat, ans, computed, params) ==
    LET env == Merge(BaseEnv, [answers |-> NsV(ans), computed |-> NsV(computed),
                               params |-> NsV(params), pricing |-> NsV(EmptyMap)])
    IN [env |-> env,
        cfg |-> SafeEvalConfig(DOMAIN env, BaseCallables, AttrRoots),
        cat |-> cat, answers |-> ans, params |-> params, captured |-> EmptyMap,
        depth |-> 0]

\* the namespace left as compute_computed built it at first: empty
ComputedSoFar_never(computed) == EmptyMap

\* env["computed"] = Namespace(computed): a copy of the map as it stands before the
\* entry is evaluated
ComputedSoFar(computed) == computed

RECURSIVE ComputedLoop(_, _, _, _, _)
ComputedLoop(cat, ans, params, cs, computed) ==
    IF Len(cs) = 0 THEN [raised |-> "", computed |-> computed]
    ELSE LET r == safe_eval(cs[1].expr,
                            ComputedCx(cat, ans, ComputedSoFar(computed), params)) IN
         IF r.raised # "" THEN [raised |-> r.raised, computed |-> computed]
         ELSE ComputedLoop(cat, ans, params, Tail(cs), Put(computed, cs[1].computed_id, r.v))

\* compute_computed(catalog, answers, params)
compute_computed(cat, ans, params) == ComputedLoop(cat, ans, params, cat.computed, EmptyMap)

\* A pricing pass: ps.pricing is the PricingState the local variable `pricing` names,
\* ps.captured the one the helper closures of env captured when execute_pricing
\* built env; ps.shared says the two are the same object.
PassStart ==
    [pricing |-> PricingState, captured |-> PricingState, shared |-> TRUE,
     outputs |-> EmptyMap, returned |-> FALSE, raised |-> ""]

\* env and cfg of execute_pricing, as they stand for the pass state ps
PricingCx(cat, ans, computed, params, ps) ==
    LET env == Merge(_pricing_env(ans, ps.pricing, params), [computed |-> NsV(computed)])
    IN [env |-> env, cfg |-> _pricing_cfg(env), cat |-> cat, answers |-> ans,
        params |-> params, captured |-> ps.captured, depth |-> MaxHelperDepth]

\* the context of a direct call _computeTariffTotal(catalog, answers, pricing, params)
DirectCx(cat, ans, params, st) ==
    LET env == _pricing_env(ans, st, params)
    IN [env |-> env, cfg |-> _pricing_cfg(env), cat |-> cat, answers |-> ans,
        params |-> params, captured |-> st, depth |-> MaxHelperDepth]

_computeTariffTotal(cat, ans, st, params) ==
    AsDecimal(HelperEval(cat.pricing.tariff_formula.tariff_total_expr,
                         DirectCx(cat, ans, params, st)))

_computePremiumTotal(cat, ans, st, params) ==
    AsInt(HelperEval(cat.pricing.tariff_formula.premium_total_expr,
                     DirectCx(cat, ans, params, st)))

\* setattr(pricing, key, val)
SetAttr(ps, key, val) ==
    [ps EXCEPT !.pricing = Put(@, key, val),
               !.captured = IF ps.shared THEN Put(@, key, val) ELSE @]

Failed(ps, kind) == [ps EXCEPT !.raised = kind]

\* setattr(pricing, key, r) for the outcome r of an evaluation or conversion; the
\* property multipliers_product has no setter
SetResult(ps, key, r) ==
    IF r.raised # "" THEN Failed(ps, r.raised)
    ELSE IF key = "multipliers_product" THEN Failed(ps, "AttributeError")
    ELSE SetAttr(ps, key, r.v)

RECURSIVE OutputsLoop(_, _, _)

\* outputs[fid] = safe_eval(expr, env, cfg), r being its outcome, and on with the loop
OutputGeneric(outs, ps, cx, r) ==
    IF r.raised # "" THEN Failed(ps, r.raised)
    ELSE OutputsLoop(Tail(outs), [ps EXCEPT !.outputs = Put(@, outs[1].target_field_id, r.v)],
                     cx)

\* the loop without its three special cases: every value_expr goes to safe_eval
OutputsLoop_generic(outs, ps, cx) ==
    IF Len(outs) = 0 THEN ps
    ELSE OutputGeneric(outs, ps, cx, safe_eval(outs[1].value_expr, cx))

\* the loop over op.get("outputs", []) of pricing_compute
OutputsLoop(outs, ps, cx) ==
    IF Len(outs) = 0 THEN ps
    ELSE IF outs[1].text = "computeTariffTotal()"
         THEN OutputGeneric(outs, ps, cx, Ret(ps.pricing.tariff_total))
    ELSE IF outs[1].text = "computePremiumTotal()"
         THEN OutputGeneric(outs, ps, cx, Ret(ps.pricing.premium_total))
    ELSE IF outs[1].text = "computeBreakdown()"
         THEN OutputGeneric(outs, ps, cx, Ret(breakdown(ps.pricing)))
    ELSE OutputGeneric(outs, ps, cx, safe_eval(outs[1].value_expr, cx))

\* return pricing, outputs
Return(ps) == IF ps.raised # "" THEN ps ELSE [ps EXCEPT !.returned = TRUE]

\* pricing_compute behind the two totals: the outputs, then the return
FinalizeOutputs(cat, ans, computed, params, op, ps) ==
    IF ps.raised # "" THEN ps
    ELSE Return(OutputsLoop(op.outputs, ps, PricingCx(cat, ans, computed, params, ps)))

\* pricing_compute behind pricing.tariff_total = ...: the premium total and the rest
FinalizePremium(cat, ans, computed, params, op, ps) ==
    IF ps.raised # "" THEN ps
    ELSE FinalizeOutputs(cat, ans, computed, params, op,
                         SetResult(ps, "premium_total",
                                   _computePremiumTotal(cat, ans, ps.pricing, params)))

\* the pricing_compute branch: totals, outputs, return
Finalize(cat, ans, computed, params, op, ps) ==
    FinalizePremium(cat, ans, computed, params, op,
                    SetResult(ps, "tariff_total",
                              _computeTariffTotal(cat, ans, ps.pricing, params)))

\* the conversion pricing_set applies to the value of key
PricingSetValue(key, r) ==
    IF r.raised # "" THEN r
    ELSE IF key \in {"base_rate", "factor_per_risk_unit", "deductible_discount"}
         THEN ToDecimal(r.v)
    ELSE IF key = "risk_weight_sum" THEN ToInt(r.v)
    ELSE r

\* note = None if note_v is None else str(note_v)
NoteOf(n) == IF n.v.t = "null" THEN NullV ELSE StrV(PyStr(n.v))

\* pricing_add_multiplier: m the outcome of Decimal(str(mval)), n that of note_expr
AddMultiplier(ps, code, m, n) ==
    IF m.raised # "" THEN Failed(ps, m.raised)
    ELSE IF n.raised # "" THEN Failed(ps, n.raised)
    ELSE SetAttr(ps, "multipliers",
                 ListV(Append(ps.pricing.multipliers.l,
                              PricingMultiplier(code, m.v, NoteOf(n)))))

\* true while the pass goes on: it has neither raised nor returned
Running_past_return(ps) == ps.raised = ""

\* a reset that forgets the fields but keeps the list of multipliers
ResetPricing_partial(ps) ==
    [ps EXCEPT !.pricing = [PricingState EXCEPT !.multipliers = ps.pricing.multipliers],
               !.shared = FALSE]

\* pricing = PricingState(); env["pricing"] = pricing: the local name and the entry of
\* env go to a new object, the helper closures keep the one they were built over
ResetPricing(ps) == [ps EXCEPT !.pricing = PricingState, !.shared = FALSE]

\* an operation of an unknown name is passed over
UnknownPricingOp_ignored(ps, op) == ps

\* raise ValueError(f"Unknown pricing op: {opname}")
UnknownPricingOp(ps, op) == Failed(ps, "ValueError")

\* one iteration of "for op in rule.get('then', [])"
ExecPricingOp(cat, ans, computed, params, op, ps) ==
    CASE op.op = "pricing_reset" -> ResetPricing(ps)
      [] op.op = "pricing_set" ->
            SetResult(ps, op.key,
                      PricingSetValue(op.key,
                                      safe_eval(op.value_expr,
                                                PricingCx(cat, ans, computed, params, ps))))
      [] op.op = "pricing_add_multiplier" ->
            AddMultiplier(ps, op.code,
                          AsDecimal(safe_eval(op.multiplier_expr,
                                              PricingCx(cat, ans, computed, params, ps))),
                          IF op.note_expr.k = "Absent" THEN Ret(NullV)
                          ELSE safe_eval(op.note_expr,
                                         PricingCx(cat, ans, computed, params, ps)))
      [] op.op = "pricing_compute" -> Finalize(cat, ans, computed, params, op, ps)
      [] OTHER -> UnknownPricingOp(ps, op)

Running(ps) == ps.raised = "" /\ ~ps.returned

RECURSIVE ExecPricingOps(_, _, _, _, _, _)
ExecPricingOps(cat, ans, computed, params, ops, ps) ==
    IF Len(ops) = 0 \/ ~Running(ps) THEN ps
    ELSE ExecPricingOps(cat, ans, computed, params, Tail(ops),
                        ExecPricingOp(cat, ans, computed, params, ops[1], ps))

\* a falsy condition runs the `else` list
PricingThen_else(rule, cond) ==
    [run |-> TRUE, ops |-> IF Truthy(cond) THEN rule.then ELSE rule.else]

\* if not bool(...): continue; otherwise the operations are rule.get("then", [])
PricingThen(rule, cond) ==
    IF Truthy(cond) THEN [run |-> TRUE, ops |-> rule.then] ELSE [run |-> FALSE, ops |-> << >>]

\* a pricing rule whose condition came out as cond
ExecPricingThen(cat, ans, computed, params, rule, ps, cond) ==
    IF cond.raised # "" THEN Failed(ps, cond.raised)
    ELSE IF ~PricingThen(rule, cond.v).run THEN ps
    ELSE ExecPricingOps(cat, ans, computed, params, PricingThen(rule, cond.v).ops, ps)

\* one iteration of "for rule in catalog.rules()"
ExecPricingRule(cat, ans, computed, params, rule, ps) ==
    IF rule.type # "pricing" THEN ps
    ELSE ExecPricingThen(cat, ans, computed, params, rule, ps,
                         safe_eval(WhenExpr(rule), PricingCx(cat, ans, computed, params, ps)))

RECURSIVE PricingLoop(_, _, _, _, _, _)
PricingLoop(cat, ans, computed, params, rs, ps) ==
    IF Len(rs) = 0 \/ ~Running(ps) THEN ps
    ELSE PricingLoop(cat, ans, computed, params, Tail(rs),
                     ExecPricingRule(cat, ans, computed, params, rs[1], ps))

\* a pass that goes on from the accumulator of the pass before it
execute_pricing_resumed(cat, ans, computed, params) ==
    PricingLoop(cat, ans, computed, params, rules(cat),
                IF pass = [t |-> "none"] THEN PassStart
                ELSE [PassStart EXCEPT !.pricing = pass.pricing, !.captured = pass.pricing])

\* execute_pricing(catalog, answers, computed, params): the pass state at its return
\* (pricing, outputs) or at the exception
execute_pricing(cat, ans, computed, params) ==
    PricingLoop(cat, ans, computed, params, rules(cat), PassStart)

\* float(value)
ToFloat(v) ==
    CASE v.t = "dec" -> Ret(FloatV(v.m, v.e))
      [] v.t = "int" -> Ret(FloatV(v.i, 0))
      [] v.t = "bool" -> Ret(FloatV(IF v.b THEN 1 ELSE 0, 0))
      [] v.t = "float" -> Ret(v)
      [] v.t = "str" -> IF DecimalParses(Strip(v.s))
                        THEN LET d == ParseDecimal(Strip(v.s)) IN Ret(FloatV(d.m, d.e))
                        ELSE Raise("ValueError")
      [] OTHER -> Raise("TypeError")

\* the loop of build_quote over outputs.items(); which of two failing conversions
\* raises first depends on the order of the outputs, the caller treats both alike
NormalizeOutputs(outputs) ==
    LET conv == [fid \in DOMAIN outputs |->
                    IF fid = "FLD_TARIFF_TOTAL" THEN ToFloat(outputs[fid])
                    ELSE IF fid = "FLD_PREMIUM_TOTAL" THEN ToInt(outputs[fid])
                    ELSE Ret(outputs[fid])]
        bad == {fid \in DOMAIN outputs : conv[fid].raised # ""}
    IN IF bad # {}
       THEN [raised |-> conv[CHOOSE fid \in bad : TRUE].raised, outputs |-> EmptyMap]
       ELSE [raised |-> "", outputs |-> [fid \in DOMAIN outputs |-> conv[fid].v]]

NoQuote(kind) == [raised |-> kind, quote |-> EmptyMap, answers |-> EmptyMap]

\* the return statement of build_quote: the quote assembled from the finished pass ps
QuoteOf(cat, ans, quote_id, computed, ps, outs, tariff_total) ==
    IF ps.raised # "" THEN NoQuote(ps.raised)
    ELSE IF outs.raised # "" THEN NoQuote(outs.raised)
    ELSE IF tariff_total.raised # "" THEN NoQuote(tariff_total.raised)
    ELSE [raised |-> "",
          answers |-> ans,
          quote |-> Merge(Merge([quoteId |-> StrV(quote_id),
                                 currency |-> StrV(cat.currency),
                                 premium_total |-> ps.pricing.premium_total,
                                 tariff_total |-> tariff_total.v,
                                 breakdown |-> breakdown(ps.pricing),
                                 computed |-> DictV(computed),
                                 validatedAnswers |-> DictV(ans)],
                                outs.outputs),
                          [warnings |-> ListV(<< >>)])]

\* build_quote behind execute_pricing: the outputs normalized, the quote assembled
QuotePriced(cat, ans, quote_id, computed, ps) ==
    QuoteOf(cat, ans, quote_id, computed, ps, NormalizeOutputs(ps.outputs),
            ToFloat(ps.pricing.tariff_total))

\* build_quote behind compute_computed
QuoteComputed(cat, ans, quote_id, params, c) ==
    IF c.raised # "" THEN NoQuote(c.raised)
    ELSE QuotePriced(cat, ans, quote_id, c.computed,
                     execute_pricing(cat, ans, c.computed, params))

\* build_quote(catalog, answers), quote_id being what uuid4() gives
build_quote(cat, ans, quote_id) ==
    QuoteComputed(cat, ans, quote_id, build_params(cat),
                  compute_computed(cat, ans, build_params(cat)))

\* json.dumps accepts the value (JSONResponse renders its content when constructed)
RECURSIVE JsonSerializable(_)
JsonSerializable(v) ==
    CASE v.t \in {"null", "bool", "int", "str", "float"} -> TRUE
      [] v.t = "list" -> \A i \in DOMAIN v.l : JsonSerializable(v.l[i])
      [] v.t = "dict" -> \A k \in DOMAIN v.d : JsonSerializable(v.d[k])
      [] OTHER -> FALSE

\* JSONResponse(...): status code and content
JSONResponse(status_code, content) == [status_code |-> status_code, content |-> content]

\* the answer of the "except Exception" handler
InternalError == JSONResponse(500, [title |-> "Internal error"])

\* FieldValidationError.to_dict
to_dict(field_errors) == [title |-> "Validation failed", fieldErrors |-> field_errors]


-----------------------------------------------------------------------------
(* Catalogs and inputs of the model                                        *)

\* includes(answers.FLD_OBJECTS_SELECTED, 'id')
ObjectSelected(id) ==
    Call(Name("includes"), << Attr("answers", "FLD_OBJECTS_SELECTED"), Constant(StrV(id)) >>)

\* visibility rules of the catalog
RuleSledType ==
    VisibilityRule(ObjectSelected("OBJ_SLED"),
                   << SetVisible("FLD_SLED_TYPE", BoolV(TRUE)) >>,
                   << SetVisible("FLD_SLED_TYPE", BoolV(FALSE)) >>)
RuleRisks ==
    VisibilityRule(Call(Name("anySelected"), << Attr("answers", "FLD_OBJECTS_SELECTED") >>),
                   << SetVisibleExpr("FLD_RISKS_SLED",
                                     BoolOp("Or", << ObjectSelected("OBJ_SLED"),
                                                     ObjectSelected("OBJ_ALL_RISKS") >>)) >>,
                   << SetVisible("FLD_RISKS_SLED", BoolV(FALSE)),
                      SetVisible("FLD_SLED_TYPE", BoolV(FALSE)) >>)
RuleBigSum ==
    VisibilityRule(Compare(Attr("answers", "FLD_INSURED_SUM"), << "Gt" >>, << Num("200") >>),
                   << SetVisible("FLD_SLED_TYPE", BoolV(FALSE)),
                      OtherOp("FLD_INSURED_SUM"),
                      SetVisible("FLD_SLED_TYPE", BoolV(TRUE)),
                      SetVisible("FLD_POLICYHOLDER_NAME", BoolV(FALSE)) >>,
                   << >>)
RuleAlways ==
    VisibilityRule(Absent, << SetVisible("FLD_RISKS_SLED", BoolV(TRUE)) >>,
                   << SetVisible("FLD_RISKS_SLED", BoolV(FALSE)) >>)

\* a rule of another type whose operations look like visibility operations
RuleOtherType ==
    [type |-> "pricing", when |-> Absent,
     then |-> << SetVisible("FLD_POLICYHOLDER_NAME", BoolV(FALSE)) >>, else |-> << >>]

VisibilityRulePool == {RuleSledType, RuleRisks, RuleBigSum, RuleAlways, RuleOtherType}

\* how many rules a catalog of the model holds
MaxRules == 3

RuleLists(pool) == UNION {[1..n -> pool] : n \in 0..MaxRules}

NoPricing ==
    [parameters |-> << >>,
     tariff_formula |-> [tariff_total_expr |-> Num("0"), premium_total_expr |-> Num("0")]]

\* pricing.parameters and pricing.tariff_formula of the catalog
Pricing ==
    [parameters |-> << [key |-> "base_rate", default |-> DecV(5, 2)],
                       [key |-> "factor_per_risk_unit", default |-> DecV(1, 2)],
                       [key |-> "reserve", default |-> NullV] >>,
     tariff_formula |->
        [tariff_total_expr |->
            BinOpNode("Sub",
                      BinOpNode("Add",
                                BinOpNode("Mult", Attr("pricing", "base_rate"),
                                          Attr("pricing", "multipliers_product")),
                                BinOpNode("Mult", Attr("pricing", "factor_per_risk_unit"),
                                          Attr("pricing", "risk_weight_sum"))),
                      Attr("pricing", "deductible_discount")),
         premium_total_expr |->
            Call(Name("round"), << BinOpNode("Mult", Attr("answers", "FLD_INSURED_SUM"),
                                             Attr("pricing", "tariff_total")) >>)]]

HelperCall(name) == Call(Name(name), << >>)

\* pricing rules of the catalog
RuleTariffBase ==
    PricingRule(Absent,
                << PricingReset,
                   PricingSet("base_rate", Attr("params", "base_rate")),
                   PricingSet("factor_per_risk_unit", Attr("params", "factor_per_risk_unit")),
                   PricingSet("risk_weight_sum",
                              Call(Name("sumRiskWeights"),
                                   << Attr("answers", "FLD_RISKS_SLED") >>)) >>)
RuleSledMultiplier ==
    PricingRule(ObjectSelected("OBJ_SLED"),
                << PricingAddMultiplier("MULT_SLED", Num("1.5"), Constant(StrV("sled"))) >>)
\* finalize, with an operation left after it in the same rule
RuleCompute ==
    PricingRule(Absent,
                << PricingCompute(<< Output("FLD_TARIFF_TOTAL", "computeTariffTotal()",
                                            HelperCall("computeTariffTotal")),
                                     Output("FLD_PREMIUM_TOTAL", "computePremiumTotal()",
                                            HelperCall("computePremiumTotal")),
                                     Output("FLD_BREAKDOWN", "computeBreakdown()",
                                            HelperCall("computeBreakdown")) >>),
                   PricingSet("base_rate", Num("9")) >>)
\* a second finalize, behind a condition
RuleComputeAgain ==
    PricingRule(Compare(Attr("answers", "FLD_INSURED_SUM"), << "Gt" >>, << Num("200") >>),
                << PricingAddMultiplier("MULT_LATE", Num("2"), Absent),
                   PricingCompute(<< Output("FLD_PREMIUM_TOTAL", "computePremiumTotal()",
                                            HelperCall("computePremiumTotal")) >>) >>)
\* an operation execute_pricing does not know
RuleUnknownOp ==
    PricingRule(UnaryOp("Not", ObjectSelected("OBJ_SANTA")), << [op |-> "pricing_discount"] >>)

\* a pricing rule that carries an `else` list
RulePricingElse ==
    [type |-> "pricing", when |-> UnaryOp("Not", ObjectSelected("OBJ_SLED")),
     then |-> << PricingSet("deductible_discount", Num("0.01")),
                 PricingSet("multipliers_product", Num("7")) >>,
     else |-> << PricingAddMultiplier("MULT_ELSE", Num("3"), Absent) >>]

\* a rule whose condition asks for the tariff of the accumulator built so far
RuleHelperGate ==
    PricingRule(Compare(HelperCall("computeTariffTotal"), << "Gt" >>, << Num("0.06") >>),
                << PricingAddMultiplier("MULT_HIGH", Num("2"), Absent) >>)

PricingRulePool ==
    {RuleTariffBase, RuleSledMultiplier, RuleCompute, RuleComputeAgain, RuleUnknownOp,
     RuleSledType, RulePricingElse, RuleHelperGate}

\* a schema document with the given rules and pricing section
Catalog(rs, pricing) ==
    [fields |-> Fields, dictionaries |-> Dictionaries, rules |-> rs, computed |-> << >>,
     pricing |-> pricing, currency |-> "RUB"]

\* an answer set that passes validation with every field visible
BaseAnswers ==
    [FLD_OBJECTS_SELECTED |-> ListV(<< StrV("OBJ_SANTA"), StrV("OBJ_SLED") >>),
     FLD_SLED_TYPE |-> StrV("SLED_TURBO"),
     FLD_INSURED_SUM |-> IntV(300),
     FLD_POLICYHOLDER_NAME |-> StrV("Ivan"),
     FLD_RISKS_SLED |-> ListV(<< StrV("R_SLED_THEFT") >>)]

\* other values a client may submit for a key (Absent: the key is missing)
Submitted(fid) ==
    CASE fid = "FLD_OBJECTS_SELECTED" ->
            {Absent, ListV(<< >>), ListV(<< StrV("OBJ_NOPE") >>), StrV("OBJ_SLED"),
             ListV(<< StrV("OBJ_SANTA"), StrV("OBJ_SANTA") >>)}
      [] fid = "FLD_SLED_TYPE" ->
            {Absent, StrV(""), StrV("SLED_NOPE"), IntV(7), NullV}
      [] fid = "FLD_INSURED_SUM" ->
            {Absent, IntV(50), IntV(250), StrV(" 400 "), StrV("4x"), BoolV(TRUE)}
      [] fid = "FLD_POLICYHOLDER_NAME" ->
            {Absent, StrV(""), NullV, StrV("I"), StrV("Ivanov"), ListV(<< StrV("Ivan") >>)}
      [] fid = "FLD_RISKS_SLED" ->
            {Absent, ListV(<< StrV("R_NOPE"), StrV("R_SLED_THEFT") >>), IntV(1),
             ListV(<< IntV(1) >>)}
      [] fid = "FLD_UNKNOWN" -> {IntV(1), NullV, StrV("")}

SubmittedKeys == FieldIds(Catalog(<< >>, NoPricing)) \cup {"FLD_UNKNOWN"}

\* how many keys of an answer set differ from BaseAnswers
MaxDeviations == 2

\* BaseAnswers with the keys of d replaced by the values d gives them
Deviate(d) ==
    [fid \in {k \in (DOMAIN BaseAnswers) \cup (DOMAIN d) :
                 k \notin DOMAIN d \/ d[k].t # "absent"} |->
        IF fid \in DOMAIN d THEN d[fid] ELSE BaseAnswers[fid]]


\* the deviations from BaseAnswers: at most MaxDeviations keys, each with a submitted value
Deviations ==
    LET all == UNION {Submitted(k) : k \in SubmittedKeys} IN
    UNION {{d \in [K -> all] : \A k \in K : d[k] \in Submitted(k)} :
              K \in {K \in SUBSET SubmittedKeys : Cardinality(K) <= MaxDeviations}}

AnswerSets == {Deviate(d) : d \in Deviations}

-----------------------------------------------------------------------------
(* Specifications                                                          *)

None == [t |-> "none"]

\* no rule loop and no pricing pass is running
NoLoop == rule_i = None /\ op_j = None /\ cur_ops = None /\ pass = None
\* no request is being served
NoRequest == payload = None /\ quote = None /\ response = None

\* no safe_eval call of its own is under way
NoEval == call = None

\* no process state: one call is followed on its own
NoProcess ==
    cache = None /\ files = None /\ frames = None /\ heap = None /\ session = None

\* visibility maps: a flag for every declared field, and maybe a false one for an id
\* that is no declared field (a rule may target any id)
VisibilityMaps(cat) ==
    [FieldIds(cat) -> BOOLEAN] \cup
    {Put(v, "FLD_UNKNOWN", FALSE) : v \in [FieldIds(cat) -> BOOLEAN]}

(* validate_answers called with any answers, visibility map and flag *)
InitValidate ==
    /\ catalog = Catalog(<< >>, NoPricing)
    /\ answers \in AnswerSets
    /\ visible \in VisibilityMaps(catalog)
    /\ require_all_required \in BOOLEAN
    /\ pc = "validate_answers"
    /\ result = None
    /\ NoLoop
    /\ NoRequest
    /\ NoEval
    /\ NoProcess
    /\ log = << >>

ValidateAnswers ==
    /\ pc = "validate_answers"
    /\ result' = validate_answers(catalog, answers, visible, require_all_required)
    /\ pc' = "returned"
    /\ log' = Append(log, "validate_answers")
    /\ UNCHANGED <<session, catalog, payload, call, cache, files, frames, heap,
                   answers, visible, require_all_required, rule_i, op_j, cur_ops,
                   pass, quote, response>>

NextValidate == ValidateAnswers

SpecValidate == InitValidate /\ [][NextValidate]_vars


-----------------------------------------------------------------------------
(* Claims about validate_answers, under SpecValidate                       *)

Returned == pc = "returned"
Failed400 == result.raised = "FieldValidationError"

FieldOf(cat, fid) == fields(cat)[CHOOSE i \in DOMAIN fields(cat) : fields(cat)[i].field_id = fid]

ItemIds(cat, dictionary_id) ==
    {dictionary_items(cat, dictionary_id)[i].id : i \in DOMAIN dictionary_items(cat, dictionary_id)}

\* C1: an id whose visibility flag is false is no key of the normalized answers, and
\* what the answers hold for a field with a false flag changes nothing: no error is
\* keyed by it and the outcome is the one of the same answers without that key.
C1_InvisibleFieldIgnored ==
    Returned =>
        \A f \in DOMAIN visible :
            ~visible[f] =>
                /\ f \notin DOMAIN result.normalized
                /\ f \in FieldIds(catalog) =>
                      /\ f \notin DOMAIN result.field_errors
                      /\ f \in DOMAIN answers =>
                            result = validate_answers(catalog, Remove(answers, f), visible,
                                                      require_all_required)

\* C1 witness: a hidden field carries a value its type rejects, and validation passes
C1_Witness ==
    /\ Returned
    /\ ~visible["FLD_INSURED_SUM"]
    /\ "FLD_INSURED_SUM" \in DOMAIN answers
    /\ answers["FLD_INSURED_SUM"] = StrV("4x")
    /\ result.raised = ""

\* values that pass the checks of their field
ValidValues(fid) ==
    {BaseAnswers[fid]} \cup
    (CASE fid = "FLD_OBJECTS_SELECTED" ->
            {StrV("OBJ_SLED"), ListV(<< StrV("OBJ_SANTA"), StrV("OBJ_SANTA") >>)}
       [] fid = "FLD_INSURED_SUM" -> {StrV(" 400 ")}
       [] OTHER -> {})

\* f is omitted and every answer given is a valid one of a declared field
OnlyOmits(f) ==
    /\ f \notin DOMAIN answers
    /\ \A k \in DOMAIN answers : k \in FieldIds(catalog) /\ answers[k] \in ValidValues(k)

\* C3: omitting a required visible field, all other answers valid, fails with that
\* field in the error map when require_all_required, and succeeds without the field
\* in the normalized answers when not.
C3_RequiredGate ==
    Returned =>
        \A f \in FieldIds(catalog) :
            (FieldOf(catalog, f).required /\ visible[f] /\ OnlyOmits(f)) =>
                IF require_all_required
                THEN Failed400 /\ f \in DOMAIN result.field_errors
                ELSE result.raised = "" /\ f \notin DOMAIN result.normalized
                     /\ DOMAIN result.normalized =
                            {k \in DOMAIN answers : visible[k]}

\* C3 witness: the required sum is omitted, the flag is off, validation passes
C3_Witness ==
    /\ Returned
    /\ visible["FLD_INSURED_SUM"]
    /\ OnlyOmits("FLD_INSURED_SUM")
    /\ ~require_all_required
    /\ result.raised = ""
    /\ DOMAIN result.normalized # {}

DictionaryBound(f) == f.data_type \in {"string", "string[]"} /\ f.dictionary_id # ""

\* the answer v of field f is a value (not null) that holds something that is no item
\* id of f's dictionary
NotAnItem(cat, f, v) ==
    LET ids == ItemIds(cat, f.dictionary_id) IN
    /\ v.t # "null"
    /\ IF f.data_type = "string[]" /\ v.t = "list"
       THEN \E i \in DOMAIN v.l : PyStr(v.l[i]) \notin ids
       ELSE v \notin {StrV(id) : id \in ids}

\* C4 as stated: any value that is no item id of the bound dictionary fails validation
\* with the field in the error map.
C4_AsStated ==
    Returned =>
        \A fid \in FieldIds(catalog) \cap DOMAIN answers :
            LET f == FieldOf(catalog, fid) IN
            (DictionaryBound(f) /\ visible[fid] /\ NotAnItem(catalog, f, answers[fid])) =>
                Failed400 /\ fid \in DOMAIN result.field_errors

\* C4 amended: a value other than the empty string that is no item id of the bound
\* dictionary fails validation with the field in the error map.
C4_UnknownDictionaryValue ==
    Returned =>
        \A fid \in FieldIds(catalog) \cap DOMAIN answers :
            LET f == FieldOf(catalog, fid) IN
            (/\ DictionaryBound(f)
             /\ visible[fid]
             /\ answers[fid] # StrV("")
             /\ NotAnItem(catalog, f, answers[fid])) =>
                Failed400 /\ fid \in DOMAIN result.field_errors

\* C4 witness: an unknown option is the only problem, and the failure names its field
C4_Witness ==
    /\ Returned
    /\ visible["FLD_OBJECTS_SELECTED"]
    /\ "FLD_OBJECTS_SELECTED" \in DOMAIN answers
    /\ answers["FLD_OBJECTS_SELECTED"] = ListV(<< StrV("OBJ_NOPE") >>)
    /\ Failed400
    /\ DOMAIN result.field_errors = {"FLD_OBJECTS_SELECTED"}

\* what is wrong with key k taken alone
HasProblem(k) ==
    IF k \notin FieldIds(catalog) THEN k \in DOMAIN answers
    ELSE LET f == FieldOf(catalog, k) IN
         /\ visible[k]
         /\ IF Provided(answers, k) THEN ValidateField(catalog, f, answers[k]).err # ""
            ELSE f.required /\ require_all_required

Problems == {k \in FieldIds(catalog) \cup DOMAIN answers : HasProblem(k)}

\* C5: the failure raised carries an entry for every key that has a problem, and
\* then no normalized answers are returned; without any problem nothing is raised.
C5_AllErrorsCollected ==
    Returned =>
        IF Problems # {}
        THEN Failed400 /\ DOMAIN result.field_errors = Problems
             /\ result.normalized = EmptyMap
        ELSE result.raised = ""

\* C5 witness: an unknown key, a missing required field and a bad value fail together
C5_Witness ==
    /\ Returned
    /\ Failed400
    /\ Cardinality(DOMAIN result.field_errors) >= 2
    /\ \E a, b \in DOMAIN result.field_errors :
          result.field_errors[a] = "required" /\ result.field_errors[b] = "not int"

\* C6: every submitted key that is no declared field id fails validation with an
\* error keyed by it, whatever its value, the visibility map and the flag.
C6_UnknownFieldRejected ==
    Returned =>
        \A k \in (DOMAIN answers) \ FieldIds(catalog) :
            Failed400 /\ k \in DOMAIN result.field_errors

\* C6 witness: an unknown key holding null, the flag off, its visibility false: rejected
C6_Witness ==
    /\ Returned
    /\ "FLD_UNKNOWN" \in DOMAIN answers
    /\ answers["FLD_UNKNOWN"] = NullV
    /\ ~require_all_required
    /\ "FLD_UNKNOWN" \in DOMAIN visible
    /\ ~visible["FLD_UNKNOWN"]
    /\ DOMAIN result.field_errors = {"FLD_UNKNOWN"}


\* raw answers that decide the rules' conditions
VisibilityAnswers ==
    {Deviate(d) : d \in {d \in Deviations : DOMAIN d \subseteq {"FLD_OBJECTS_SELECTED",
                                                                "FLD_INSURED_SUM"}}}

(* compute_visibility, one loop iteration per step *)
InitVisibility ==
    /\ catalog \in {Catalog(rs, NoPricing) : rs \in RuleLists(VisibilityRulePool)}
    /\ answers \in VisibilityAnswers
    /\ visible = AllVisible(catalog)
    /\ require_all_required = None
    /\ pc = "rules"
    /\ result = None
    /\ rule_i = 1
    /\ op_j = None
    /\ cur_ops = None
    /\ pass = None
    /\ NoRequest
    /\ NoEval
    /\ NoProcess
    /\ log = << >>

Event(ev, rule, op) == [ev |-> ev, rule |-> rule, op |-> op]

\* for rule in catalog.rules(): a rule of another type is passed over
VisSkipRule ==
    /\ pc = "rules"
    /\ rule_i <= Len(rules(catalog))
    /\ ~IsVisibilityRule(rules(catalog)[rule_i])
    /\ rule_i' = rule_i + 1
    /\ UNCHANGED <<session, catalog, payload, call, cache, files, frames, heap,
                   pc, answers, visible, require_all_required, result, op_j, cur_ops,
                   pass, quote, response, log>>

\* cond = bool(safe_eval(when_expr, env, cfg)); ops = then or else
VisEvalWhen ==
    /\ pc = "rules"
    /\ rule_i <= Len(rules(catalog))
    /\ IsVisibilityRule(rules(catalog)[rule_i])
    /\ LET rule == rules(catalog)[rule_i]
           cond == safe_eval(WhenExpr(rule), VisibilityCx(catalog, answers, EmptyMap))
       IN IF cond.raised # ""
          THEN /\ pc' = "raised"
               /\ result' = [raised |-> cond.raised, visible |-> visible]
               /\ UNCHANGED <<op_j, cur_ops, log>>
          ELSE /\ pc' = "ops"
               /\ cur_ops' = BranchOps(rule, Truthy(cond.v))
               /\ op_j' = 1
               /\ log' = Append(log, Event("when", rule_i, Absent))
               /\ UNCHANGED result
    /\ UNCHANGED <<session, catalog, payload, call, cache, files, frames, heap,
                   answers, visible, require_all_required, rule_i, pass, quote,
                   response>>

\* for op in ops: one operation
VisApplyOp ==
    /\ pc = "ops"
    /\ op_j <= Len(cur_ops)
    /\ LET r == ApplyVisibilityOp(visible, cur_ops[op_j],
                                  VisibilityCx(catalog, answers, EmptyMap))
       IN IF r.raised # ""
          THEN /\ pc' = "raised"
               /\ result' = r
               /\ UNCHANGED <<visible, op_j, log>>
          ELSE /\ visible' = r.visible
               /\ op_j' = op_j + 1
               /\ log' = Append(log, Event("op", rule_i, cur_ops[op_j]))
               /\ UNCHANGED <<pc, result>>
    /\ UNCHANGED <<session, catalog, payload, call, cache, files, frames, heap,
                   answers, require_all_required, rule_i, cur_ops, pass, quote,
                   response>>

\* the operations of the rule are done: on to the next rule
VisEndRule ==
    /\ pc = "ops"
    /\ op_j > Len(cur_ops)
    /\ pc' = "rules"
    /\ rule_i' = rule_i + 1
    /\ UNCHANGED <<session, catalog, payload, call, cache, files, frames, heap,
                   answers, visible, require_all_required, result, op_j, cur_ops,
                   pass, quote, response, log>>

\* return visible
VisReturn ==
    /\ pc = "rules"
    /\ rule_i > Len(rules(catalog))
    /\ pc' = "returned"
    /\ result' = [raised |-> "", visible |-> visible]
    /\ UNCHANGED <<session, catalog, payload, call, cache, files, frames, heap,
                   answers, visible, require_all_required, rule_i, op_j, cur_ops,
                   pass, quote, response, log>>

NextVisibility == VisSkipRule \/ VisEvalWhen \/ VisApplyOp \/ VisEndRule \/ VisReturn

SpecVisibility == InitVisibility /\ [][NextVisibility]_vars

\* the loop, step by step, ends where compute_visibility ends
VisibilityStepsAgree ==
    pc \in {"returned", "raised"} =>
        LET r == compute_visibility(catalog, answers, EmptyMap) IN
        result.raised = r.raised /\ (r.raised = "" => result.visible = r.visible)

-----------------------------------------------------------------------------
(* Claims about compute_visibility, under SpecVisibility                   *)

\* the positions of the log where a set_visible operation on field f was applied
WritesTo(f) ==
    {i \in DOMAIN log : log[i].ev = "op" /\ log[i].op.op = "set_visible"
                        /\ log[i].op.field_id = f}

Last(S) == CHOOSE i \in S : \A j \in S : j <= i

\* the flag a set_visible operation asks for, taken alone
Written(op) ==
    IF op.value_expr.k # "Absent"
    THEN Truthy(safe_eval(op.value_expr, VisibilityCx(catalog, answers, EmptyMap)).v)
    ELSE Truthy(op.value)

\* C7: when several applied set_visible operations target one field, the field's
\* visibility is the value written by the last of them in rule order and op order;
\* the earlier writes have no effect.
C7_LastWriteWins ==
    \A f \in DOMAIN visible :
        WritesTo(f) # {} => visible[f] = Written(log[Last(WritesTo(f))].op)

\* C7 witness: a field was written false and later true, and true is returned; another
\* was written true and later false, and false is returned
C7_Witness ==
    /\ pc = "returned"
    /\ \E f, g \in DOMAIN result.visible :
          /\ \E i, j \in WritesTo(f) :
                i < j /\ ~Written(log[i].op) /\ Written(log[j].op) /\ j = Last(WritesTo(f))
          /\ \E i, j \in WritesTo(g) :
                i < j /\ Written(log[i].op) /\ ~Written(log[j].op) /\ j = Last(WritesTo(g))
          /\ result.visible[f] /\ ~result.visible[g]

\* the catalog with its rules of other types taken out
VisibilityRulesOnly(cat) ==
    LET Test(rule) == rule.type = "visibility" IN
    [cat EXCEPT !.rules = SelectSeq(cat.rules, Test)]

\* C8: the map has a key for every declared field, a declared field no applied
\* set_visible operation targets is true, and rules of other types change nothing:
\* no operation of theirs is applied and the map returned is the one the catalog
\* gives without them.
C8_DefaultVisible ==
    /\ FieldIds(catalog) \subseteq DOMAIN visible
    /\ \A f \in FieldIds(catalog) : WritesTo(f) = {} => visible[f]
    /\ \A i \in DOMAIN log : rules(catalog)[log[i].rule].type = "visibility"
    /\ pc = "returned" =>
          /\ FieldIds(catalog) \subseteq DOMAIN result.visible
          /\ result.visible =
                compute_visibility(VisibilityRulesOnly(catalog), answers, EmptyMap).visible

\* C8 witness: a rule of another type would hide the name, a visibility rule hid
\* another field, and the name is returned visible
C8_Witness ==
    /\ pc = "returned"
    /\ \E r \in DOMAIN rules(catalog) : rules(catalog)[r] = RuleOtherType
    /\ WritesTo("FLD_POLICYHOLDER_NAME") = {}
    /\ result.visible["FLD_POLICYHOLDER_NAME"]
    /\ \E f \in DOMAIN result.visible : ~result.visible[f]

\* the operations applied for rule r, in the order they were applied
AppliedOps(r) ==
    LET Test(e) == e.ev = "op" /\ e.rule = r
        evs == SelectSeq(log, Test)
    IN [i \in 1..Len(evs) |-> evs[i].op]

\* the outcome of rule's condition, evaluated on its own
WhenOutcome(rule) == safe_eval(WhenExpr(rule), VisibilityCx(catalog, answers, EmptyMap))

\* the branch a rule has to take
BranchDue(rule) == IF Truthy(WhenOutcome(rule).v) THEN rule.then ELSE rule.else

\* rule r has been left behind by the loop
RuleDone(r) == pc = "returned" \/ (pc \in {"rules", "ops"} /\ r < rule_i)

\* C9: for each visibility rule the operations applied are those of one branch, `then`
\* when the condition is truthy and `else` (none if absent) otherwise: while the rule
\* runs they are the first operations of that branch, once it is done they are all of
\* them, and no operation of the other branch is applied.
C9_OneBranch ==
    \A r \in DOMAIN rules(catalog) :
        LET rule == rules(catalog)[r]
            applied == AppliedOps(r)
        IN rule.type = "visibility" =>
              IF WhenOutcome(rule).raised # "" THEN applied = << >>
              ELSE /\ Len(applied) <= Len(BranchDue(rule))
                   /\ applied = SubSeq(BranchDue(rule), 1, Len(applied))
                   /\ RuleDone(r) => applied = BranchDue(rule)

\* C9 witness: one rule took its `then` branch and another its `else` branch, each
\* branch different from the one not taken
C9_Witness ==
    /\ pc = "returned"
    /\ \E r, q \in DOMAIN rules(catalog) :
          /\ rules(catalog)[r].type = "visibility" /\ rules(catalog)[q].type = "visibility"
          /\ Truthy(WhenOutcome(rules(catalog)[r]).v)
          /\ ~Truthy(WhenOutcome(rules(catalog)[q]).v)
          /\ AppliedOps(r) = rules(catalog)[r].then /\ AppliedOps(r) # rules(catalog)[r].else
          /\ AppliedOps(q) = rules(catalog)[q].else /\ AppliedOps(q) # << >>

-----------------------------------------------------------------------------
(* execute_pricing, one loop iteration per step                            *)

\* answer sets execute_pricing is called with
PricingAnswers ==
    {BaseAnswers,
     Deviate([FLD_INSURED_SUM |-> IntV(50)]),
     Deviate([FLD_INSURED_SUM |-> StrV("4x")]),
     Deviate([FLD_OBJECTS_SELECTED |-> ListV(<< StrV("OBJ_SANTA"), StrV("OBJ_SANTA") >>)]),
     Deviate([FLD_OBJECTS_SELECTED |-> ListV(<< StrV("OBJ_SLED") >>),
              FLD_RISKS_SLED |-> Absent]),
     Deviate([FLD_INSURED_SUM |-> Absent])}

InitPricing ==
    /\ catalog \in {Catalog(rs, Pricing) : rs \in RuleLists(PricingRulePool)}
    /\ answers \in PricingAnswers
    /\ visible = None
    /\ require_all_required = None
    /\ pc = "rules"
    /\ result = None
    /\ rule_i = 1
    /\ op_j = None
    /\ cur_ops = None
    /\ pass = PassStart
    /\ NoRequest
    /\ NoEval
    /\ NoProcess
    /\ log = << >>

\* a step of the pass: what ran (a rule's `when` or an operation), where, and the pass
\* state it ran on
PassEvent(ev, op) == [ev |-> ev, rule |-> rule_i, j |-> op_j, op |-> op, before |-> pass]

\* env and cfg as execute_pricing holds them now
PassCx == PricingCx(catalog, answers, EmptyMap, build_params(catalog), pass)

\* for rule in catalog.rules(): a rule of another type is passed over
PrSkipRule ==
    /\ pc = "rules"
    /\ rule_i <= Len(rules(catalog))
    /\ rules(catalog)[rule_i].type # "pricing"
    /\ rule_i' = rule_i + 1
    /\ UNCHANGED <<session, catalog, payload, call, cache, files, frames, heap,
                   pc, answers, visible, require_all_required, result, op_j,
                   cur_ops, pass, quote, response, log>>

\* if not bool(safe_eval(when_expr, env, cfg)): continue
PrEvalWhen ==
    /\ pc = "rules"
    /\ rule_i <= Len(rules(catalog))
    /\ rules(catalog)[rule_i].type = "pricing"
    /\ LET rule == rules(catalog)[rule_i]
           cond == safe_eval(WhenExpr(rule), PassCx)
       IN IF cond.raised # ""
          THEN /\ pc' = "raised"
               /\ pass' = Failed(pass, cond.raised)
               /\ result' = pass'
               /\ UNCHANGED <<rule_i, op_j, cur_ops, log>>
          ELSE /\ log' = Append(log, PassEvent("when", Absent))
               /\ IF PricingThen(rule, cond.v).run
                  THEN /\ pc' = "ops"
                       /\ cur_ops' = PricingThen(rule, cond.v).ops
                       /\ op_j' = 1
                       /\ UNCHANGED rule_i
                  ELSE /\ rule_i' = rule_i + 1
                       /\ UNCHANGED <<pc, cur_ops, op_j>>
               /\ UNCHANGED <<pass, result>>
    /\ UNCHANGED <<session, catalog, payload, call, cache, files, frames, heap,
                   answers, visible, require_all_required, quote, response>>

\* for op in rule.get("then", []): one operation
PrExecOp ==
    /\ pc = "ops"
    /\ op_j <= Len(cur_ops)
    /\ pass' = ExecPricingOp(catalog, answers, EmptyMap, build_params(catalog),
                             cur_ops[op_j], pass)
    /\ IF pass'.raised # ""
       THEN pc' = "raised" /\ result' = pass' /\ UNCHANGED <<op_j, log>>
       ELSE /\ log' = Append(log, PassEvent("op", cur_ops[op_j]))
            /\ IF Running(pass')
               THEN op_j' = op_j + 1 /\ UNCHANGED <<pc, result>>
               ELSE pc' = "returned" /\ result' = pass' /\ UNCHANGED op_j
    /\ UNCHANGED <<session, catalog, payload, call, cache, files, frames, heap,
                   answers, visible, require_all_required, rule_i, cur_ops,
                   quote, response>>

\* the operations of the rule are done: on to the next rule
PrEndRule ==
    /\ pc = "ops"
    /\ op_j > Len(cur_ops)
    /\ pc' = "rules"
    /\ rule_i' = rule_i + 1
    /\ UNCHANGED <<session, catalog, payload, call, cache, files, frames, heap,
                   answers, visible, require_all_required, result, op_j,
                   cur_ops, pass, quote, response, log>>

\* return pricing, {}
PrReturn ==
    /\ pc = "rules"
    /\ rule_i > Len(rules(catalog))
    /\ pc' = "returned"
    /\ result' = [pass EXCEPT !.outputs = EmptyMap]
    /\ UNCHANGED <<session, catalog, payload, call, cache, files, frames, heap,
                   answers, visible, require_all_required, rule_i, op_j,
                   cur_ops, pass, quote, response, log>>

NextPricing == PrSkipRule \/ PrEvalWhen \/ PrExecOp \/ PrEndRule \/ PrReturn

SpecPricing == InitPricing /\ [][NextPricing]_vars

\* the loop, step by step, ends where execute_pricing ends
PricingStepsAgree ==
    pc \in {"returned", "raised"} =>
        LET r == execute_pricing(catalog, answers, EmptyMap, build_params(catalog)) IN
        /\ result.raised = r.raised
        /\ r.raised = "" => result.pricing = r.pricing /\ result.outputs = r.outputs

-----------------------------------------------------------------------------
(* Claims about execute_pricing, under SpecPricing                         *)

\* the positions of the log where a pricing_compute operation was executed
ComputeEvents == {i \in DOMAIN log : log[i].ev = "op" /\ log[i].op.op = "pricing_compute"}

\* the catalog cut off behind operation j of rule r
CutBehind(cat, r, j) ==
    [cat EXCEPT !.rules =
        [i \in 1..r |-> IF i < r THEN cat.rules[i]
                        ELSE [cat.rules[r] EXCEPT !.then = SubSeq(@, 1, j)]]]

\* C10: once a pricing_compute operation has executed the pass has ended: it is the
\* last step of the history, so no later operation of the rule and no later rule was
\* executed or had its condition evaluated; and the accumulator and outputs returned
\* are those of that finalize, the ones the catalog gives with everything behind the
\* finalize cut off.
C10_FirstFinalizeWins ==
    \A i \in ComputeEvents :
        /\ i = Len(log)
        /\ pc = "returned"
        /\ rule_i = log[i].rule /\ op_j = log[i].j
        /\ LET params == build_params(catalog)
               f == Finalize(catalog, answers, EmptyMap, params, log[i].op, log[i].before)
               cut == execute_pricing(CutBehind(catalog, log[i].rule, log[i].j), answers,
                                      EmptyMap, params)
           IN /\ result.pricing = f.pricing /\ result.outputs = f.outputs
              /\ result.pricing = cut.pricing /\ result.outputs = cut.outputs

\* C10 witness: the finalize of a rule that has an operation left behind it returned,
\* and the next rule, whose condition holds, holds another finalize with other outputs
C10_Witness ==
    /\ pc = "returned"
    /\ \E i \in ComputeEvents :
          /\ log[i].j < Len(rules(catalog)[log[i].rule].then)
          /\ log[i].rule < Len(rules(catalog))
          /\ rules(catalog)[log[i].rule + 1] = RuleComputeAgain
    /\ answers = BaseAnswers
    /\ DOMAIN result.outputs = {"FLD_TARIFF_TOTAL", "FLD_PREMIUM_TOTAL", "FLD_BREAKDOWN"}
    /\ result.pricing.base_rate = DecV(5, 2)

\* the positions of the log where the condition of a pricing rule was evaluated
WhenEvents == {i \in DOMAIN log : log[i].ev = "when"}

\* what the condition evaluated at position i of the log gave
WhenOf(i) ==
    safe_eval(WhenExpr(rules(catalog)[log[i].rule]),
              PricingCx(catalog, answers, EmptyMap, build_params(catalog), log[i].before))

\* the pass state behind position i of the log
After(i) == IF i < Len(log) THEN log[i + 1].before ELSE pass

\* the step behind position i is the first operation of that rule's `then` list
ThenStarted(i) ==
    LET r == log[i].rule
        then == rules(catalog)[r].then
    IN IF then = << >> THEN TRUE
       ELSE IF i < Len(log)
            THEN /\ log[i + 1].ev = "op" /\ log[i + 1].rule = r
                 /\ log[i + 1].j = 1 /\ log[i + 1].op = then[1]
       ELSE rule_i = r /\ op_j = 1 /\ cur_ops = then /\ pc \in {"ops", "raised"}

\* C11: a pricing rule whose `when` came out falsy leaves the accumulator as it was:
\* the pass goes on with a later rule, none of the rule's operations runs, its `else`
\* list included; a pricing rule without `when` always has its `then` list started.
C11_FalsyWhenSkipsRule ==
    \A i \in WhenEvents :
        LET rule == rules(catalog)[log[i].rule]
            cond == WhenOf(i)
        IN /\ cond.raised = ""
           /\ ~Truthy(cond.v) =>
                 /\ After(i).pricing = log[i].before.pricing
                 /\ After(i).captured = log[i].before.captured
                 /\ After(i).outputs = log[i].before.outputs
                 /\ i < Len(log) => log[i + 1].rule > log[i].rule
                 /\ i = Len(log) => rule_i > log[i].rule /\ pc # "ops"
           /\ rule.when = Absent => Truthy(cond.v) /\ ThenStarted(i)

\* C11 witness: a pass that returned after a rule without `when` had set up a
\* non-zero accumulator and a rule with both lists had its condition come out falsy
C11_Witness ==
    /\ pc = "returned"
    /\ \E i \in WhenEvents :
          /\ rules(catalog)[log[i].rule] = RulePricingElse
          /\ ~Truthy(WhenOf(i).v)
          /\ log[i].before.pricing.base_rate = DecV(5, 2)
    /\ \E i \in WhenEvents : rules(catalog)[log[i].rule].when = Absent

\* the positions of the log where an operation named name was executed
OpEvents(name) == {i \in DOMAIN log : log[i].ev = "op" /\ log[i].op.op = name}

\* what an expression of the pass reads as pricing.attr in the pass state ps
ReadPricing(ps, attr) ==
    safe_eval(Attr("pricing", attr),
              PricingCx(catalog, answers, EmptyMap, build_params(catalog), ps))

\* the attributes of a PricingState an expression can read
PricingAttrs == (DOMAIN PricingState) \cup {"multipliers_product"}

Synced(ps) == [ps EXCEPT !.captured = ps.pricing]

\* the expression calls one of the helpers computeTariffTotal, computePremiumTotal,
\* computeBreakdown
RECURSIVE CallsHelper(_)
CallsHelper(node) ==
    CASE node.k = "Call" ->
            \/ node.func.k = "Name" /\ node.func.id \in {"computeTariffTotal",
                                                         "computePremiumTotal",
                                                         "computeBreakdown"}
            \/ \E i \in DOMAIN node.args : CallsHelper(node.args[i])
      [] node.k = "Compare" ->
            \/ CallsHelper(node.left)
            \/ \E i \in DOMAIN node.comparators : CallsHelper(node.comparators[i])
      [] node.k = "BinOp" -> CallsHelper(node.left) \/ CallsHelper(node.right)
      [] node.k = "BoolOp" -> \E i \in DOMAIN node.values : CallsHelper(node.values[i])
      [] node.k = "UnaryOp" -> CallsHelper(node.operand)
      [] node.k = "IfExp" ->
            CallsHelper(node.test) \/ CallsHelper(node.body) \/ CallsHelper(node.orelse)
      [] node.k = "List" -> \E i \in DOMAIN node.elts : CallsHelper(node.elts[i])
      [] OTHER -> FALSE

\* C13, as stated: a condition that calls a helper is given what the helper computes
\* from the accumulator as it stands where the condition is evaluated, after a
\* pricing_reset too.
C13_HelpersSeeCurrentAccumulator ==
    \A i \in WhenEvents :
        CallsHelper(WhenExpr(rules(catalog)[log[i].rule])) =>
            WhenOf(i) = safe_eval(WhenExpr(rules(catalog)[log[i].rule]),
                                  PricingCx(catalog, answers, EmptyMap, build_params(catalog),
                                            Synced(log[i].before)))

\* what the code does instead: the helpers compute from the PricingState that
\* execute_pricing created at its start, which no operation behind a pricing_reset
\* reaches; until the first reset that is the accumulator itself.
C13_HelpersSeeFirstAccumulator ==
    \A i \in WhenEvents :
        LET before == log[i].before IN
        /\ before.shared => before.captured = before.pricing
        /\ \A j \in OpEvents("pricing_reset") :
              j < i => before.captured = log[j].before.captured /\ ~before.shared

\* a condition calling computeTariffTotal() was evaluated behind a pricing_reset and
\* a pricing_set, and came out as the tariff of the accumulator before the reset
C13_Witness ==
    \E i \in WhenEvents :
        /\ rules(catalog)[log[i].rule] = RuleHelperGate
        /\ OpEvents("pricing_reset") \cap 1..i # {}
        /\ log[i].before.pricing.base_rate = DecV(5, 2)
        /\ log[i].before.captured.base_rate = DecV(0, 0)
        /\ ~Truthy(WhenOf(i).v)

\* the product of a sequence of decimals, first to last, starting from Decimal('1')
RECURSIVE ProductOf(_)
ProductOf(vals) ==
    IF Len(vals) = 0 THEN DecV(1, 0)
    ELSE LET rest == ProductOf(Tail(vals)) IN DecV(vals[1].m * rest.m, vals[1].e + rest.e)

\* the values the pricing_add_multiplier operations of the first n steps appended
\* since the last pricing_reset among them
RECURSIVE Appended(_)
Appended(n) ==
    IF n = 0 THEN << >>
    ELSE IF log[n].ev # "op" THEN Appended(n - 1)
    ELSE IF log[n].op.op = "pricing_reset" THEN << >>
    ELSE IF log[n].op.op = "pricing_add_multiplier"
         THEN Append(Appended(n - 1),
                     AsDecimal(safe_eval(log[n].op.multiplier_expr,
                                         PricingCx(catalog, answers, EmptyMap,
                                                   build_params(catalog), log[n].before))).v)
    ELSE Appended(n - 1)

\* C14: at every point of a pricing pass the accumulator's list holds the values
\* appended since the last reset, in append order, and multipliers_product, as an
\* expression reads it and as breakdown() shows it, is their product, 1 for an empty
\* list.
C14_RunningProduct ==
    pass # None =>
        LET ms == pass.pricing.multipliers.l
            vals == [i \in DOMAIN ms |-> ms[i].value]
        IN /\ vals = Appended(Len(log))
           /\ ReadPricing(pass, "multipliers_product") = Ret(ProductOf(vals))
           /\ breakdown(pass.pricing).d.multipliers_product = StrV(PyStr(ProductOf(vals)))
           /\ vals = << >> => ReadPricing(pass, "multipliers_product") = Ret(DecV(1, 0))

\* C14 witness: two multipliers, 1.5 and 2, were appended behind a reset
C14_Witness ==
    /\ pass # None
    /\ Len(pass.pricing.multipliers.l) = 2
    /\ ReadPricing(pass, "multipliers_product") = Ret(DecV(30, 1))
    /\ OpEvents("pricing_reset") # {}

-----------------------------------------------------------------------------
(* POST /api/quote (app/api/router.py, post_quote), one call per step      *)

\* rule lists of the served catalog: visibility rules, then pricing rules
ApiVisibilityRules ==
    {<< >>, << RuleSledType >>, << RuleSledType, RuleRisks >>, << RuleBigSum >>,
     << RuleAlways, RuleRisks, RuleBigSum >>}
ApiPricingRules ==
    {<< >>, << RuleTariffBase, RuleSledMultiplier, RuleCompute >>,
     << RuleTariffBase, RuleUnknownOp, RuleCompute, RuleComputeAgain >>}

\* request bodies: {"answers": {...}}, {"answers": null}, {}
Payloads ==
    {[answers |-> DictV(a)] : a \in AnswerSets} \cup {[answers |-> NullV], EmptyMap}

\* what uuid4() may give
QuoteIds == {"quote-a", "quote-b"}

Init ==
    /\ catalog \in {Catalog(v \o p, Pricing) : v \in ApiVisibilityRules, p \in ApiPricingRules}
    /\ payload \in Payloads
    /\ pc = "post_quote"
    /\ answers = None
    /\ visible = None
    /\ require_all_required = None
    /\ result = None
    /\ NoLoop
    /\ quote = None
    /\ response = None
    /\ NoEval
    /\ NoProcess
    /\ log = << >>

\* a call of the handler: which step, and the answers handed to it
Step(ev, ans) == [ev |-> ev, answers |-> ans]

\* answers_in = payload.get("answers") or {}
AnswersIn(body) ==
    IF "answers" \in DOMAIN body /\ Truthy(body.answers) THEN body.answers.d ELSE EmptyMap

\* what post_quote does with the outcome vis of compute_visibility
VisibilityDone(vis) ==
    IF vis.raised # ""
    THEN pc' = "responded" /\ response' = InternalError /\ UNCHANGED visible
    ELSE pc' = "clear" /\ visible' = vis.visible /\ UNCHANGED response

\* vis = compute_visibility(catalog, answers_in, computed_stub)
ApiVisibility ==
    /\ pc = "post_quote"
    /\ answers' = AnswersIn(payload)
    /\ log' = Append(log, Step("visibility", AnswersIn(payload)))
    /\ VisibilityDone(compute_visibility(catalog, AnswersIn(payload), EmptyMap))
    /\ UNCHANGED <<session, catalog, payload, call, cache, files, frames, heap,
                   require_all_required, result, rule_i, op_j, cur_ops, pass,
                   quote>>

\* answers_in = clear_invisible_answers(answers_in, vis)
ApiClear ==
    /\ pc = "clear"
    /\ answers' = clear_invisible_answers(answers, visible)
    /\ log' = Append(log, Step("discard", answers))
    /\ pc' = "validate"
    /\ UNCHANGED <<session, catalog, payload, call, cache, files, frames, heap,
                   visible, require_all_required, result, rule_i, op_j,
                   cur_ops, pass, quote, response>>

\* validated = validate_answers(catalog, answers_in, visible=vis, require_all_required=True)
ApiValidate ==
    /\ pc = "validate"
    /\ require_all_required' = TRUE
    /\ result' = validate_answers(catalog, answers, visible, TRUE)
    /\ log' = Append(log, Step("validate", answers))
    /\ IF result'.raised # ""
       THEN /\ pc' = "responded"
            /\ response' = JSONResponse(400, to_dict(result'.field_errors))
       ELSE pc' = "price" /\ UNCHANGED response
    /\ UNCHANGED <<session, catalog, payload, call, cache, files, frames, heap,
                   answers, visible, rule_i, op_j, cur_ops, pass, quote>>

\* quote = build_quote(catalog, validated)
ApiPrice ==
    /\ pc = "price"
    /\ \E quote_id \in QuoteIds : quote' = build_quote(catalog, result.normalized, quote_id)
    /\ log' = Append(log, Step("price", result.normalized))
    /\ IF quote'.raised # ""
       THEN pc' = "responded" /\ response' = InternalError
       ELSE pc' = "render" /\ UNCHANGED response
    /\ UNCHANGED <<session, catalog, payload, call, cache, files, frames, heap,
                   answers, visible, require_all_required, result, rule_i,
                   op_j, cur_ops, pass>>

\* return JSONResponse(quote)
ApiRespond ==
    /\ pc = "render"
    /\ response' = IF JsonSerializable(DictV(quote.quote))
                   THEN JSONResponse(200, quote.quote) ELSE InternalError
    /\ pc' = "responded"
    /\ UNCHANGED <<session, catalog, payload, call, cache, files, frames, heap,
                   answers, visible, require_all_required, result, rule_i,
                   op_j, cur_ops, pass, quote, log>>

Next == ApiVisibility \/ ApiClear \/ ApiValidate \/ ApiPrice \/ ApiRespond

Spec == Init /\ [][Next]_vars

-----------------------------------------------------------------------------
(* Claims about the API quote pipeline, under Spec                         *)

PipelineSteps == << "visibility", "discard", "validate", "price" >>

\* no key of ans has a false visibility flag
NoInvisibleKey(ans) == \A k \in DOMAIN ans : ~(k \in DOMAIN visible /\ ~visible[k])

\* C2: the steps of POST /api/quote run in the order visibility, discard-invisible,
\* validate, price; the answers handed to validation and those handed to build_quote
\* hold no key whose visibility flag is false; and when validation fails build_quote
\* is not reached: no price step, no quote, and the answer is the 400.
C2_PipelineOrder ==
    /\ Len(log) <= Len(PipelineSteps)
    /\ \A i \in DOMAIN log : log[i].ev = PipelineSteps[i]
    /\ \A i \in DOMAIN log :
          log[i].ev \in {"validate", "price"} => NoInvisibleKey(log[i].answers)
    /\ quote # None =>
          /\ result # None /\ result.raised = ""
          /\ quote.raised = "" => NoInvisibleKey(quote.answers)
    /\ (result # None /\ result.raised # "") =>
          /\ quote = None
          /\ Len(log) = 3
          /\ pc = "responded"
          /\ response.status_code = 400

\* C2 witness: the request carries a value its field rejects for a field the rules
\* hide; the value is discarded, validation passes, and the quote is answered without it
C2_Witness ==
    /\ pc = "responded"
    /\ response.status_code = 200
    /\ "answers" \in DOMAIN payload
    /\ payload.answers.t = "dict"
    /\ "FLD_SLED_TYPE" \in DOMAIN payload.answers.d
    /\ payload.answers.d["FLD_SLED_TYPE"] = StrV("SLED_NOPE")
    /\ ~visible["FLD_SLED_TYPE"]
    /\ "FLD_SLED_TYPE" \notin DOMAIN response.content.validatedAnswers.d
    /\ Len(log) = 4

\* the operation names execute_pricing knows
PricingOpNames == {"pricing_reset", "pricing_set", "pricing_add_multiplier", "pricing_compute"}

\* in the pass over ans, rule r is executed and reaches its operation j
ReachesOp(cat, ans, r, j) ==
    LET params == build_params(cat)
        computed == compute_computed(cat, ans, params).computed
        start == execute_pricing(CutBehind(cat, r, 0), ans, computed, params)
        cond == safe_eval(WhenExpr(cat.rules[r]), PricingCx(cat, ans, computed, params, start))
    IN /\ cat.rules[r].type = "pricing"
       /\ Running(start)
       /\ cond.raised = "" /\ Truthy(cond.v)
       /\ Running(execute_pricing(CutBehind(cat, r, j - 1), ans, computed, params))

\* an executed pricing rule reaches an operation of a name execute_pricing does not know
ReachesUnknownOp(cat, ans) ==
    \E r \in DOMAIN cat.rules : \E j \in DOMAIN cat.rules[r].then :
        /\ cat.rules[r].then[j].op \notin PricingOpNames
        /\ ReachesOp(cat, ans, r, j)

\* C15: when the pricing pass of a request reaches an operation whose name is none of
\* pricing_reset, pricing_set, pricing_add_multiplier, pricing_compute, build_quote
\* ends with a ValueError and no quote, and the request is answered 500 with the
\* internal-error body, which has no fieldErrors; it is never answered 400 or 200.
C15_UnknownOpIs500 ==
    (quote # None /\ ReachesUnknownOp(catalog, result.normalized)) =>
        /\ quote.raised = "ValueError"
        /\ quote.quote = EmptyMap
        /\ pc = "responded"
        /\ response = InternalError
        /\ response.status_code = 500
        /\ "fieldErrors" \notin DOMAIN response.content

\* C15 witness: a request that passed validation was answered 500 because its pricing
\* pass ran into the unknown operation, with a finalize rule waiting behind it
C15_Witness ==
    /\ pc = "responded"
    /\ quote # None
    /\ result.raised = ""
    /\ ReachesUnknownOp(catalog, result.normalized)
    /\ RuleCompute \in Range(catalog.rules)
    /\ response.status_code = 500

-----------------------------------------------------------------------------
(* build_quote called again and again (app/services/pricing.py), for one   *)
(* catalog, on validated answers to which risk ids are added between calls *)

\* rule lists of the catalog
QuoteRuleLists ==
    {<< RuleTariffBase, RuleSledMultiplier, RuleCompute >>,
     << RuleSledMultiplier, RuleCompute >>,
     << RuleTariffBase, RuleHelperGate, RuleComputeAgain >>,
     << RuleTariffBase, RulePricingElse, RuleCompute >>,
     << RuleTariffBase, RuleUnknownOp, RuleCompute >>,
     << RuleTariffBase >>}

\* validated answers
QuoteAnswers ==
    {BaseAnswers,
     Deviate([FLD_RISKS_SLED |-> Absent]),
     Deviate([FLD_OBJECTS_SELECTED |-> ListV(<< StrV("OBJ_SANTA") >>),
              FLD_SLED_TYPE |-> Absent, FLD_INSURED_SUM |-> IntV(500)])}

\* how many calls of build_quote a behaviour holds
MaxCalls == 3
\* how many risk ids an answer set holds
MaxRisks == 2

\* the risk ids selected in ans
SelectedRisks(ans) ==
    IF "FLD_RISKS_SLED" \in DOMAIN ans THEN ans["FLD_RISKS_SLED"].l ELSE << >>

InitQuote ==
    /\ catalog \in {Catalog(rs, Pricing) : rs \in QuoteRuleLists}
    /\ answers \in QuoteAnswers
    /\ pc = "quote"
    /\ visible = None
    /\ require_all_required = None
    /\ result = None
    /\ NoLoop
    /\ NoRequest
    /\ NoEval
    /\ NoProcess
    /\ log = << >>

\* quote = build_quote(catalog, answers); pass is the accumulator that call created
QuoteCall ==
    /\ pc = "quote"
    /\ Len(log) < MaxCalls
    /\ \E quote_id \in QuoteIds : quote' = build_quote(catalog, answers, quote_id)
    /\ pass' = execute_pricing(catalog, answers,
                               compute_computed(catalog, answers,
                                                build_params(catalog)).computed,
                               build_params(catalog))
    /\ log' = Append(log, [answers |-> answers, quote |-> quote'])
    /\ UNCHANGED <<session, catalog, payload, call, cache, files, frames, heap,
                   pc, answers, visible, require_all_required, result,
                   rule_i, op_j, cur_ops, response>>

\* the client selects one more risk of the dictionary
SelectRisk ==
    /\ pc = "quote"
    /\ Len(SelectedRisks(answers)) < MaxRisks
    /\ \E i \in DOMAIN dictionary_items(catalog, "DICT_RISKS") :
          answers' = Put(answers, "FLD_RISKS_SLED",
                         ListV(Append(SelectedRisks(answers),
                                      StrV(dictionary_items(catalog, "DICT_RISKS")[i].id))))
    /\ UNCHANGED <<session, catalog, payload, call, cache, files, frames, heap,
                   pc, visible, require_all_required, result, rule_i, op_j,
                   cur_ops, pass, quote, response, log>>

NextQuote == QuoteCall \/ SelectRisk

SpecQuote == InitQuote /\ [][NextQuote]_vars

-----------------------------------------------------------------------------
(* Claims about build_quote, under SpecQuote                               *)

\* two returns of build_quote that differ in nothing but the quoteId
SameButQuoteId(p, q) ==
    /\ p.raised = q.raised
    /\ p.raised = "" =>
          /\ DOMAIN p.quote = DOMAIN q.quote
          /\ \A k \in (DOMAIN p.quote) \ {"quoteId"} : p.quote[k] = q.quote[k]
          /\ p.quote.premium_total = q.quote.premium_total
          /\ p.quote.tariff_total = q.quote.tariff_total
          /\ p.quote.breakdown = q.quote.breakdown
          /\ p.quote.computed = q.quote.computed

RiskWeight(cat, rid) ==
    LET items == dictionary_items(cat, "DICT_RISKS")
    IN items[CHOOSE i \in DOMAIN items : items[i].id = rid].weight

\* b is a plus one more selected risk id, one of a weight >= 0, all else equal
PlusOneRisk(cat, a, b) ==
    /\ "FLD_RISKS_SLED" \in DOMAIN b
    /\ \E i \in DOMAIN dictionary_items(cat, "DICT_RISKS") :
          LET rid == dictionary_items(cat, "DICT_RISKS")[i].id IN
          /\ RiskWeight(cat, rid) >= 0
          /\ b = Put(a, "FLD_RISKS_SLED", ListV(Append(SelectedRisks(a), StrV(rid))))

\* sumRiskWeights(ans.FLD_RISKS_SLED)
WeightSum(cat, ans) == sumRiskWeights(cat, << ListV(SelectedRisks(ans)) >>).v.i

-----------------------------------------------------------------------------
(* safe_eval(expr, env, cfg) (app/services/expression.py), one call per     *)
(* behaviour, a step of the function per action: the steps of js_to_python, *)
(* ast.parse, SafeEvaluator.visit                                           *)

\* the source texts handed to safe_eval
ExprTexts ==
    {"a ? (b ? 1 : 2) : 3", "a ? b ? 1 : 2 : 3", "a ? 1 : b ? 2 : 3",
     "a ? b ? x : y : z", "a ? x : b ? y : z", "b ? x : (a ? y : z)",
     "(a ? x : y)", "(a) ? x : y", "a ? 'x?y' : 'z:'", "a === b ? 'p (' : 'q )'",
     "a || secret", "a && secret", "a ? x : secret", "secret", "secret || a",
     "count(x)", "a ? count(x) : y", "b && count(x)", "coalesce(secret)",
     "coalesce(x)(y)", "a.b(x)", "round(x)", "round", "!b && a", "a && !b",
     "answers.F", "answers.G", "(answers).F", "answers.F.g", "coalesce(x).y", "'s'.y",
     "secret.y", "x.y", "params.k", "a ? answers.F : secret.y",
     "x[a]", "answers[secret]", "+x", "a ? x", "x y", "a ? x[b] : y", "x +",
     "a || round(x)", "a && b && count(x)", "b || a || secret",
     "params.k2", "answers.F1", "'k2'", "x + 1.5", "a1",
     "'null'", "'a && b'", "'Math.min'", "'x ? y : z'", "'a === b'", "'a!'", "'a!=b'",
     "'nullable'"}

\* an environment: two flags, three numbers, two namespaces, an entry and a callable
\* no configuration below lets an expression use
EvalEnv(a, b) ==
    [a |-> BoolV(a), b |-> BoolV(b), x |-> IntV(10), y |-> IntV(20), z |-> IntV(30),
     answers |-> NsV([F |-> IntV(5), F1 |-> IntV(7)]),
     params |-> NsV([k |-> IntV(1), k2 |-> IntV(3)]),
     secret |-> IntV(42), Decimal |-> FnV("Decimal"), coalesce |-> FnV("coalesce"),
     round |-> FnV("round"), count |-> FnV("count")]

EvalAttrRoots == {"answers", "params"}

EvalCallables == {"Decimal", "coalesce", "round"}

\* the configurations: one that names all the environment, as the engines' do, and
\* one that names a part of it
EvalConfigs ==
    {SafeEvalConfig(DOMAIN EvalEnv(TRUE, TRUE), EvalCallables, EvalAttrRoots),
     SafeEvalConfig({"a", "b", "x", "y", "z", "answers", "Decimal", "coalesce"},
                    EvalCallables, EvalAttrRoots)}

\* a call of safe_eval: the site it is made from, its arguments, and what the
\* helper closures in env captured
EvalCall(site, expr, cx) ==
    [site |-> site, expr |-> expr, env |-> cx.env, cfg |-> cx.cfg,
     closure |-> [answers |-> cx.answers, params |-> cx.params, captured |-> cx.captured,
                  depth |-> cx.depth]]

\* a caller of its own: no helper closures
OwnCx(env, cfg) ==
    [env |-> env, cfg |-> cfg, answers |-> EmptyMap, params |-> EmptyMap,
     captured |-> EmptyMap, depth |-> 0]

\* the catalog the engines' calls are made for
EvalCatalog == Catalog(<< >>, Pricing)

\* the texts handed to safe_eval from the engines
EngineTexts ==
    {"answers.UNDECLARED", "computed.UNDECLARED", "params.UNDECLARED",
     "pricing.UNDECLARED", "answers.FLD_SLED_TYPE", "params.base_rate",
     "pricing.base_rate"}

\* env and cfg as each engine builds them: compute_visibility, compute_computed,
\* execute_pricing, and _computeTariffTotal / _computePremiumTotal
EngineCxs ==
    [compute_visibility |-> VisibilityCx(EvalCatalog, BaseAnswers, EmptyMap),
     compute_computed |->
         ComputedCx(EvalCatalog, BaseAnswers, EmptyMap, build_params(EvalCatalog)),
     execute_pricing |->
         PricingCx(EvalCatalog, BaseAnswers, EmptyMap, build_params(EvalCatalog), PassStart),
     _computeTariffTotal |->
         DirectCx(EvalCatalog, BaseAnswers, build_params(EvalCatalog), PricingState)]

InitEval ==
    /\ call \in {EvalCall("safe_eval", e, OwnCx(EvalEnv(a, b), c)) :
                    e \in ExprTexts, a \in BOOLEAN, b \in BOOLEAN, c \in EvalConfigs}
               \cup {EvalCall(site, e, EngineCxs[site]) :
                        site \in DOMAIN EngineCxs, e \in EngineTexts}
    /\ catalog = EvalCatalog
    /\ NoProcess
    /\ pc = "keywords"
    /\ answers = None
    /\ visible = None
    /\ require_all_required = None
    /\ result = None
    /\ NoLoop
    /\ NoRequest
    /\ log = << >>

\* a step of safe_eval: what it was handed and what it gave
EvalStep(step, in, out) == [step |-> step, in |-> in, out |-> out]

\* the text the last step gave
Text == log[Len(log)].out

\* the evaluator's context for the call
EvalCx ==
    [env |-> call.env, cfg |-> call.cfg, cat |-> catalog, answers |-> call.closure.answers,
     params |-> call.closure.params, captured |-> call.closure.captured,
     depth |-> call.closure.depth]

\* s = expr.strip(); s = re.sub(r"\b(null|true|false)\b", repl_kw, s)
JsKeywords ==
    /\ pc = "keywords"
    /\ log' = << EvalStep("keywords", call.expr, ReplaceKeywords(Strip(call.expr), 1)) >>
    /\ pc' = "convert_ternary"
    /\ UNCHANGED <<session, catalog, payload, call, cache, files, frames, heap,
                   answers, visible, require_all_required, result,
                   rule_i, op_j, cur_ops, pass, quote, response>>

\* s = convert_ternary(s)
JsTernary ==
    /\ pc = "convert_ternary"
    /\ log' = Append(log, EvalStep("convert_ternary", Text, convert_ternary(Text)))
    /\ pc' = "operators"
    /\ UNCHANGED <<session, catalog, payload, call, cache, files, frames, heap,
                   answers, visible, require_all_required, result,
                   rule_i, op_j, cur_ops, pass, quote, response>>

\* the replacements of the operators, Math.min, and _wrap_numbers_as_decimal
JsOperators ==
    /\ pc = "operators"
    /\ LET s3 == ReplaceAll(Text, 1, "===", "==")
           s4 == ReplaceAll(s3, 1, "&&", " and ")
           s5 == ReplaceAll(s4, 1, "||", " or ")
           s6 == ReplaceNot(s5, 1)
           s7 == ReplaceAll(s6, 1, "Math.min", "min")
       IN log' = Append(log, EvalStep("operators", Text, _wrap_numbers_as_decimal(s7)))
    /\ pc' = "parse"
    /\ UNCHANGED <<session, catalog, payload, call, cache, files, frames, heap,
                   answers, visible, require_all_required, result,
                   rule_i, op_j, cur_ops, pass, quote, response>>

\* tree = ast.parse(py, mode="eval"); a SyntaxError leaves safe_eval
AstParse ==
    /\ pc = "parse"
    /\ LET tree == ast_parse(Text) IN
       /\ log' = Append(log, EvalStep("parse", Text, tree))
       /\ IF tree.raised # "" THEN pc' = "raised" /\ result' = tree
          ELSE pc' = "visit" /\ UNCHANGED result
    /\ UNCHANGED <<session, catalog, payload, call, cache, files, frames, heap,
                   answers, visible, require_all_required,
                   rule_i, op_j, cur_ops, pass, quote, response>>

\* return evaluator.visit(tree)
EvalVisit ==
    /\ pc = "visit"
    /\ LET r == Visit(log[Len(log)].out.v, EvalCx) IN
       /\ log' = Append(log, EvalStep("visit", log[Len(log)].out.v, r))
       /\ result' = r
       /\ pc' = IF r.raised # "" THEN "raised" ELSE "returned"
    /\ UNCHANGED <<session, catalog, payload, call, cache, files, frames, heap,
                   answers, visible, require_all_required,
                   rule_i, op_j, cur_ops, pass, quote, response>>

NextEval == JsKeywords \/ JsTernary \/ JsOperators \/ AstParse \/ EvalVisit

SpecEval == InitEval /\ [][NextEval]_vars

\* safe_eval has ended, by a return or by an exception
EvalDone == pc \in {"returned", "raised"}

\* the steps give what the functions give in one piece
EvalStepsAgree ==
    /\ pc = "parse" => Text = js_to_python(call.expr)
    /\ EvalDone => result = safe_eval_text(call.expr, EvalCx)

\* the nested conditional of the contract, and the same conditionals nested by hand
NestedTernary == "a ? (b ? 1 : 2) : 3"
ManualNesting == IfExp(Name("a"), IfExp(Name("b"), Num("1"), Num("2")), Num("3"))

\* the value the nested conditional stands for
NestedValue(a, b) == IF a THEN (IF b THEN 1 ELSE 2) ELSE 3

\* C18: for all boolean a and b, safe_eval of `a ? (b ? 1 : 2) : 3` succeeds and
\* returns 1 when a and b, 2 when a and not b, 3 when not a: what the conditionals
\* nested by hand give
C18_NestedTernaryEvaluates ==
    (EvalDone /\ call.expr = NestedTernary) =>
        /\ result.raised = ""
        /\ PyEq(result.v, IntV(NestedValue(call.env.a.b, call.env.b.b)))
        /\ result = Visit(ManualNesting, EvalCx)

\* safe_eval of the nested conditional has ended, with a true and b false
C18_Witness ==
    /\ EvalDone
    /\ call.expr = NestedTernary
    /\ call.env.a.b /\ ~call.env.b.b
    /\ PyEq(Visit(ManualNesting, EvalCx).v, IntV(2))

\* what safe_eval does with it: the branch in parentheses keeps its '?' and ':',
\* and ast.parse raises SyntaxError whatever a and b are; without the parentheses
\* the same conditional evaluates as nested by hand
C18_ParenthesisedBranchIsSyntaxError ==
    /\ (EvalDone /\ call.expr = NestedTernary) =>
            /\ result = Raise("SyntaxError")
            /\ log[Len(log)].in = "((b ? Decimal('1') : Decimal('2')) if a else Decimal('3'))"
    /\ (EvalDone /\ call.expr = "a ? b ? 1 : 2 : 3") => result = Visit(ManualNesting, EvalCx)

\* convert_ternary has run: the text it was handed and the text it gave
TernaryDone == Len(log) >= 2
TernaryIn == log[2].in
TernaryOut == log[2].out

\* position i of the text lies outside the single-quoted strings
OutsideStrings(s, i) == Cardinality({j \in 1..i : Char(s, j) = "'"}) % 2 = 0

\* how many parentheses opened before position i are still open there
DepthAt(s, i) ==
    Cardinality({j \in 1..(i - 1) : Char(s, j) = "(" /\ OutsideStrings(s, j)})
    - Cardinality({j \in 1..(i - 1) : Char(s, j) = ")" /\ OutsideStrings(s, j)})

\* the positions of the character c outside strings, at parenthesis depth 0 / at any depth
TopLevel(s, c) == {i \in 1..Len(s) : Char(s, i) = c /\ OutsideStrings(s, i) /\ DepthAt(s, i) = 0}
AnyDepth(s, c) == {i \in 1..Len(s) : Char(s, i) = c /\ OutsideStrings(s, i)}

\* the split is at the first '?' outside parentheses and strings and at the ':' that
\* closes it: as many '?' as ':' lie between them at that level
SplitsAtMatchingPair(s) ==
    LET loc == _find_top_level_ternary(s) IN
    IF TopLevel(s, "?") = {} THEN ~loc.found
    ELSE loc.found =>
            /\ loc.q \in TopLevel(s, "?") /\ \A i \in TopLevel(s, "?") : loc.q <= i
            /\ loc.c \in TopLevel(s, ":") /\ loc.q < loc.c
            /\ Cardinality({i \in TopLevel(s, "?") : loc.q < i /\ i < loc.c})
               = Cardinality({i \in TopLevel(s, ":") : loc.q < i /\ i < loc.c})

\* a ? (b ? x : y) : z and a ? x : (b ? y : z), as trees
NestedInThen == IfExp(Name("a"), IfExp(Name("b"), Name("x"), Name("y")), Name("z"))
NestedInElse == IfExp(Name("a"), Name("x"), IfExp(Name("b"), Name("y"), Name("z")))

\* unparenthesised ternaries nest to the right
RightAssociative ==
    /\ call.expr = "a ? b ? x : y : z" => ast_parse(TernaryOut) = Ret(NestedInThen)
    /\ call.expr = "a ? x : b ? y : z" => ast_parse(TernaryOut) = Ret(NestedInElse)

\* C19: convert_ternary splits only at a '?' and its matching ':' outside parentheses
\* and single-quoted strings, nests unparenthesised ternaries right-associatively
\* (`a ? b ? x : y : z` is a ? (b ? x : y) : z, `a ? x : b ? y : z` is
\* a ? x : (b ? y : z)), and converts every ternary of the input, at any parenthesis
\* depth: no '?' outside a string is left
C19_EveryTernaryConverted ==
    TernaryDone =>
        /\ SplitsAtMatchingPair(TernaryIn)
        /\ RightAssociative
        /\ AnyDepth(TernaryOut, "?") = {}

\* convert_ternary has run on a text with a ternary inside parentheses
C19_Witness ==
    /\ TernaryDone
    /\ AnyDepth(TernaryIn, "?") # TopLevel(TernaryIn, "?")
    /\ TopLevel(TernaryIn, "?") # {}

\* what convert_ternary does: the splitting and the nesting are as stated, and the
\* ternaries outside parentheses are converted; one inside parentheses stays as it was
C19_TopLevelTernariesConverted ==
    TernaryDone =>
        /\ SplitsAtMatchingPair(TernaryIn)
        /\ RightAssociative
        /\ TopLevel(TernaryOut, "?") = {}
        /\ Cardinality(AnyDepth(TernaryOut, "?"))
           = Cardinality(AnyDepth(TernaryIn, "?") \ TopLevel(TernaryIn, "?"))

\* ast.parse gave a tree: the tree, and the events of its evaluation
EvalParsed == Len(log) >= 4 /\ log[4].out.raised = ""
Tree == log[4].out.v
EvalTrace == Trace(Tree, EvalCx)

\* the sub-expressions of a tree; the name a call is made by belongs to the call
RECURSIVE Nodes(_), NodesOfAll(_)
Nodes(node) ==
    {node} \cup
    CASE node.k = "List" -> NodesOfAll(node.elts)
      [] node.k = "Attribute" -> Nodes(node.value)
      [] node.k = "Subscript" -> Nodes(node.value) \cup Nodes(node.slice)
      [] node.k = "UnaryOp" -> Nodes(node.operand)
      [] node.k = "BoolOp" -> NodesOfAll(node.values)
      [] node.k = "BinOp" -> Nodes(node.left) \cup Nodes(node.right)
      [] node.k = "Compare" -> Nodes(node.left) \cup NodesOfAll(node.comparators)
      [] node.k = "IfExp" -> Nodes(node.test) \cup Nodes(node.body) \cup Nodes(node.orelse)
      [] node.k = "Call" ->
            (IF node.func.k = "Name" THEN {} ELSE Nodes(node.func)) \cup NodesOfAll(node.args)
      [] OTHER -> {}

NodesOfAll(nodes) == UNION {Nodes(nodes[i]) : i \in DOMAIN nodes}

\* a reference the configuration does not allow: a name outside allowed_names, a call
\* of a name outside allowed_callables, a call of anything but a bare name
Disallowed(node) ==
    \/ node.k = "Name" /\ node.id \notin call.cfg.allowed_names
    \/ node.k = "Call" /\ node.func.k = "Name" /\ node.func.id \notin call.cfg.allowed_callables
    \/ node.k = "Call" /\ node.func.k # "Name"

\* a name reference reads env only for a name in allowed_names; the callee of a call
\* is read from env and invoked only for a bare name in allowed_callables
ReadsWithinAllowLists ==
    /\ \A id \in DOMAIN call.env : ReadName(id) \in EvalTrace => id \in call.cfg.allowed_names
    /\ \A id \in DOMAIN call.env :
          (ReadCallee(id) \in EvalTrace \/ Invoked(id) \in EvalTrace)
              => id \in call.cfg.allowed_callables

\* C20 as stated: an evaluation reads no environment entry outside allowed_names
\* and invokes no callable outside allowed_callables or not called by a bare name,
\* and every such reference in the expression makes the evaluation fail
C20_EveryDisallowedReferenceFails ==
    (EvalDone /\ EvalParsed) =>
        /\ ReadsWithinAllowLists
        /\ (\E n \in Nodes(Tree) : Disallowed(n)) => result.raised # ""

\* C20: an evaluation reads no environment entry for a name reference outside
\* allowed_names, reads and invokes no callee outside allowed_callables or not
\* given by a bare name, and every such reference that the evaluation visits makes
\* it fail with ValueError; one in an operand that and/or short-circuits past, or in
\* the branch a conditional does not take, is never looked at
C20_VisitedDisallowedReferenceFails ==
    (EvalDone /\ EvalParsed) =>
        /\ ReadsWithinAllowLists
        /\ \A n \in Nodes(Tree) :
              (Disallowed(n) /\ Visited(n) \in EvalTrace) => result = Raise("ValueError")
        /\ \A n \in Nodes(Tree) :
              (Disallowed(n) /\ result.raised = "") => Visited(n) \notin EvalTrace

\* an evaluation has visited a name outside allowed_names that env holds, after an
\* operand that did not decide the result, and has failed
C20_Witness ==
    /\ EvalDone /\ EvalParsed
    /\ call.expr = "a || secret"
    /\ Visited(Name("secret")) \in EvalTrace
    /\ "secret" \in DOMAIN call.env /\ "secret" \notin call.cfg.allowed_names
    /\ ReadName("a") \in EvalTrace
    /\ result = Raise("ValueError")

\* an evaluation has returned a value though the expression refers to a name outside
\* allowed_names
C20_UnvisitedReference ==
    /\ EvalDone /\ EvalParsed
    /\ \E n \in Nodes(Tree) : Disallowed(n)
    /\ result.raised = ""

\* the attribute accesses of the expression that the evaluation has visited
VisitedAttributes ==
    {n \in Nodes(Tree) : n.k = "Attribute" /\ Visited(n) \in EvalTrace}

\* root.attr with root a bare name in allowed_attr_roots
RootDotAttr(n) == n.value.k = "Name" /\ n.value.id \in call.cfg.allowed_attr_roots

MissingAttribute(root) == root \o ".UNDECLARED"

\* safe_eval has ended for root.UNDECLARED, called from an engine
MissingAttributeDone(root) ==
    EvalDone /\ call.site \in DOMAIN EngineCxs /\ call.expr = MissingAttribute(root)

\* C22: in every engine environment (visibility, computed, pricing rules, the
\* tariff and premium formulas) and for every allow-listed root answers, computed,
\* params and pricing, an attribute the root does not have evaluates to null
C22_MissingAttributeIsNull ==
    \A root \in AttrRoots : MissingAttributeDone(root) => result = Ret(NullV)

\* a pricing rule's expression has referred to pricing.UNDECLARED
C22_Witness ==
    /\ MissingAttributeDone("pricing")
    /\ call.site = "execute_pricing"
    /\ call.env["pricing"] = PricingV(PricingState)

\* what the code does: the roots bound to a Namespace give null; `pricing` is bound
\* to the PricingState itself where prices are worked out, and getattr raises
\* AttributeError there
C22_PricingStateRaises ==
    \A root \in AttrRoots :
        MissingAttributeDone(root) =>
            result = IF call.env[root].t = "pricing" THEN Raise("AttributeError")
                     ELSE Ret(NullV)

\* the kind SafeEvaluator raises for what it rejects
RejectedExpression == Raise("ValueError")

\* ast.parse did not accept the text
ParseFailed == EvalDone /\ Len(log) = 4 /\ log[4].out.raised # ""

\* a node SafeEvaluator rejects: a disallowed name, a disallowed or indirect call, an
\* attribute of anything but an allowed root, a node with no visit_ method
Rejects(node) ==
    \/ Disallowed(node)
    \/ node.k = "Attribute" /\ ~RootDotAttr(node)
    \/ node.k = "Subscript"

\* the evaluator has come to a node it rejects
VisitRejected ==
    EvalDone /\ EvalParsed /\ \E n \in Nodes(Tree) : Rejects(n) /\ Visited(n) \in EvalTrace

\* C23: a parse failure, a disallowed name, a disallowed attribute root, a disallowed
\* or indirect call and an unsupported syntax node all make safe_eval fail with one
\* and the same error kind
C23_OneErrorKind ==
    (ParseFailed \/ VisitRejected) => result = RejectedExpression

\* a text ast.parse does not accept has left safe_eval with a SyntaxError, where the
\* evaluator raises ValueError for an unsupported node
C23_Witness ==
    /\ ParseFailed
    /\ call.expr = "a ? x"
    /\ result = Raise("SyntaxError")
    /\ Visit(Subscript(Name("x"), Name("a")), EvalCx) = RejectedExpression

\* what the code does: the evaluator's rejections are ValueErrors, each kind of them;
\* the parser's SyntaxError passes through safe_eval as it is
C23_ParseFailureIsSyntaxError ==
    /\ ParseFailed => result = Raise("SyntaxError")
    /\ VisitRejected => result = RejectedExpression
    /\ \A e \in {"secret", "secret.y", "count(x)", "a.b(x)", "x[a]"} :
          (EvalDone /\ call.expr = e /\ (e = "secret" => e \notin call.cfg.allowed_names))
              => VisitRejected

-----------------------------------------------------------------------------
(* load_catalog and its lru_cache, app/services/schema_loader.py           *)

\* the default of load_catalog's schema_path parameter
DefaultSchemaPath == "catalog/schema.json"

\* the paths of the model: the default one and another
SchemaPaths == {DefaultSchemaPath, "other/schema.json"}

\* the schema documents a file of the model holds
SchemaDocs == {Catalog(<< >>, NoPricing), Catalog(<< >>, Pricing)}

\* how many calls of load_catalog a behaviour holds
MaxLoads == 4

\* the arguments of a call as written: load_catalog(), load_catalog(p),
\* load_catalog(schema_path=p)
NoArgs == [args |-> << >>, kwds |-> << >>]
Positional(p) == [args |-> << p >>, kwds |-> << >>]
Keyword(p) == [args |-> << >>, kwds |-> << <<"schema_path", p>> >>]

LoadArgs == {NoArgs} \cup {Positional(p) : p \in SchemaPaths}
                     \cup {Keyword(p) : p \in SchemaPaths}

\* the value the parameter schema_path is bound to
schema_path(a) ==
    IF Len(a.args) > 0 THEN a.args[1]
    ELSE IF Len(a.kwds) > 0 THEN a.kwds[1][2]
    ELSE DefaultSchemaPath

\* the body of load_catalog: read the file, parse it, wrap it
ReadCatalog(a, fs) ==
    IF fs[schema_path(a)] = None THEN Raise("FileNotFoundError")
    ELSE Ret(fs[schema_path(a)])

\* lru_cache's maxsize
maxsize == 1

\* lru_cache's key: the arguments as they were written, defaults not filled in
CacheKey(a) == a

\* the entry of the cache under the key, or None
CacheFind(c, key) ==
    IF \E i \in DOMAIN c.entries : c.entries[i].key = key
    THEN (CHOOSE e \in {c.entries[i] : i \in DOMAIN c.entries} : e.key = key)
    ELSE None

\* the entries with one more, the oldest dropped when the cache is full
CacheStore(entries, e) ==
    IF Len(entries) >= maxsize THEN Append(Tail(entries), e) ELSE Append(entries, e)

\* the entries with the one under the key moved to the newest end
CacheTouch(entries, key) ==
    SelectSeq(entries, LAMBDA e : e.key # key) \o SelectSeq(entries, LAMBDA e : e.key = key)

\* the empty cache
NoCache == [entries |-> << >>, hits |-> 0, misses |-> 0]

\* one call of load_catalog through its lru_cache wrapper: what it returns or raises,
\* whether it read the file, and the cache after it; a call that raises stores nothing
load_catalog(a, c, fs) ==
    IF CacheFind(c, CacheKey(a)) # None
    THEN [out |-> Ret(CacheFind(c, CacheKey(a)).value), read |-> FALSE,
          cache |-> [c EXCEPT !.hits = @ + 1, !.entries = CacheTouch(@, CacheKey(a))]]
    ELSE [out |-> ReadCatalog(a, fs), read |-> TRUE,
          cache |-> IF ReadCatalog(a, fs).raised # ""
                    THEN [c EXCEPT !.misses = @ + 1]
                    ELSE [c EXCEPT !.misses = @ + 1,
                                   !.entries = CacheStore(@, [key |-> CacheKey(a),
                                                              value |-> ReadCatalog(a, fs).v])]]

\* the process has started: nothing is loaded, the default schema file exists
InitCatalog ==
    /\ cache = NoCache
    /\ files \in {fs \in [SchemaPaths -> SchemaDocs \cup {None}] : fs[DefaultSchemaPath] # None}
    /\ catalog = None
    /\ pc = "serving"
    /\ answers = None /\ visible = None /\ require_all_required = None /\ result = None
    /\ NoLoop /\ NoRequest /\ NoEval
    /\ frames = None /\ heap = None /\ session = None
    /\ log = << >>

\* a call of load_catalog, by a handler of the application or by any other caller
LoadCatalog ==
    /\ Len(log) < MaxLoads
    /\ \E a \in LoadArgs :
          LET r == load_catalog(a, cache, files) IN
          /\ cache' = r.cache
          /\ result' = r.out
          /\ catalog' = IF r.out.raised = "" THEN r.out.v ELSE catalog
          /\ log' = Append(log, [args |-> a, out |-> r.out, read |-> r.read])
    /\ UNCHANGED <<session, payload, call, files, frames, heap, pc, answers, visible,
                   require_all_required, rule_i, op_j, cur_ops, pass, quote, response>>

\* the file under a path is replaced on disk while the process runs
EditSchema ==
    /\ \E p \in SchemaPaths, doc \in SchemaDocs :
          /\ files[p] # doc
          /\ files' = [files EXCEPT ![p] = doc]
    /\ UNCHANGED <<session, catalog, payload, call, cache, frames, heap, pc, answers, visible,
                   require_all_required, result, rule_i, op_j, cur_ops, pass, quote,
                   response, log>>

NextCatalog == LoadCatalog \/ EditSchema

SpecCatalog == InitCatalog /\ [][NextCatalog]_vars

\* the calls that returned a catalog
LoadsReturned == {i \in DOMAIN log : log[i].out.raised = ""}

\* the first call that returned a catalog
FirstLoad == CHOOSE i \in LoadsReturned : \A j \in LoadsReturned : i <= j

\* C24: after load_catalog has returned a catalog once, every later call, whatever
\* schema_path argument it is given, the default path passed explicitly included,
\* returns that same catalog and does not read the file again
C24_FirstLoadWins ==
    \A j \in DOMAIN log :
        (LoadsReturned # {} /\ j > FirstLoad) =>
            /\ log[j].out = log[FirstLoad].out
            /\ ~log[j].read

\* load_catalog() has returned a catalog, and load_catalog("catalog/schema.json")
\* after it has read the file again
C24_Witness ==
    /\ Len(log) = 2
    /\ log[1].args = NoArgs /\ log[1].out.raised = ""
    /\ log[2].args = Positional(DefaultSchemaPath)
    /\ log[2].read
    /\ cache.misses = 2 /\ cache.hits = 0

\* what the code does: a call returns the cached catalog without reading exactly when
\* the call before it that returned was written with the same arguments; the cache
\* holds one entry, and a call written otherwise reads the file and replaces it
C24_HitOnSameArguments ==
    /\ Len(cache.entries) <= maxsize
    /\ cache.hits + cache.misses = Len(log)
    /\ \A j \in DOMAIN log :
          LET before == {i \in LoadsReturned : i < j} IN
          IF before # {} /\ log[CHOOSE i \in before : \A h \in before : h <= i].args = log[j].args
          THEN ~log[j].read
               /\ log[j].out = log[CHOOSE i \in before : \A h \in before : h <= i].out
          ELSE log[j].read

\* the application's own calls are all written load_catalog(): for them the first
\* load wins
C24_NoArgumentCallsShareOneLoad ==
    (\A i \in DOMAIN log : log[i].args = NoArgs) =>
        \A j \in DOMAIN log : j > 1 => log[j].out = log[1].out /\ ~log[j].read

-----------------------------------------------------------------------------
(* Invocations of build_quote, compute_visibility, clear_invisible_answers *)
(* and validate_answers running interleaved in one process, on the one     *)
(* cached catalog; the mappings they are given and build are objects of    *)
(* the heap                                                                *)

\* how many invocations run at a time
MaxInvocations == 2

Invocations == 1..MaxInvocations

\* the catalogs of the interleavings
InterleavedRuleLists ==
    {<< RuleSledType, RuleTariffBase, RuleSledMultiplier, RuleCompute >>,
     << RuleRisks, RuleSledMultiplier, RulePricingElse >>}

\* answers without the sled, and answers validation rejects
SantaAnswers ==
    Deviate([FLD_OBJECTS_SELECTED |-> ListV(<< StrV("OBJ_SANTA") >>), FLD_SLED_TYPE |-> Absent])
RejectedAnswers == Deviate([FLD_INSURED_SUM |-> StrV("4x"), FLD_SLED_TYPE |-> Absent])

\* a visibility map with the sled's fields hidden
SledHidden(cat) ==
    [fid \in FieldIds(cat) |-> fid \notin {"FLD_SLED_TYPE", "FLD_RISKS_SLED"}]

\* the calls that run interleaved: function, answers, visible
InterleavedCalls ==
    {<<"build_quote", BaseAnswers, "all">>, <<"build_quote", SantaAnswers, "all">>,
     <<"compute_visibility", SantaAnswers, "all">>,
     <<"validate_answers", RejectedAnswers, "all">>,
     <<"clear_invisible_answers", BaseAnswers, "sled hidden">>}

\* one accumulator of the module for each function, whoever calls it
Allocate_shared(h, fn) ==
    CASE fn = "build_quote" -> -1
      [] fn = "compute_visibility" -> -2
      [] OTHER -> -3

\* PricingState(), {...}: a constructor call or a display gives an object no other
\* reference names
Allocate(h, fn) == Cardinality(DOMAIN h) + 1

\* cleaned = answers: the name is bound to the caller's mapping
DictCopy_alias(h, src) == src

\* cleaned = dict(answers): a new mapping with the items of the one given
DictCopy(h, src) == Cardinality(DOMAIN h) + 1

\* the heap with obj under addr
Store(h, addr, obj) == [a \in DOMAIN h \cup {addr} |-> IF a = addr THEN obj ELSE h[a]]

\* what an invocation builds before its loop: execute_pricing its PricingState, env
\* and outputs; compute_visibility its `visible`; validate_answers its field_errors
\* and normalized; clear_invisible_answers its `cleaned`
Accumulator(cat, fn, ans) ==
    CASE fn = "build_quote" -> PassStart
      [] fn = "compute_visibility" -> [raised |-> "", visible |-> AllVisible(cat)]
      [] fn = "clear_invisible_answers" -> ans
      [] OTHER -> [field_errors |-> UnknownErrors(cat, ans), normalized |-> EmptyMap]

\* what the loop of the function iterates over; the keys of a visibility map are the
\* field ids in the order of the catalog
LoopItems(cat, fn) ==
    IF fn \in {"validate_answers", "clear_invisible_answers"} THEN fields(cat) ELSE rules(cat)

\* the loop goes on from the accumulator acc
Looping(fn, acc) ==
    CASE fn = "build_quote" -> Running(acc)
      [] fn = "compute_visibility" -> acc.raised = ""
      [] OTHER -> TRUE

\* one iteration of the loop, on the accumulator acc
LoopStep(cat, fn, ans, vis, item, acc) ==
    CASE fn = "build_quote" ->
            ExecPricingRule(cat, ans, EmptyMap, build_params(cat), item, acc)
      [] fn = "compute_visibility" ->
            ApplyVisibilityRule(acc.visible, item, VisibilityCx(cat, ans, EmptyMap))
      [] fn = "clear_invisible_answers" ->
            IF ~vis[item.field_id] /\ item.field_id \in DOMAIN acc
            THEN Remove(acc, item.field_id) ELSE acc
      [] OTHER -> ValidateStep(cat, ans, vis, TRUE, item, acc)

\* what the function returns or raises behind its loop
LoopResult(cat, fn, ans, vis, quote_id, acc) ==
    CASE fn = "build_quote" -> QuotePriced(cat, ans, quote_id, EmptyMap, acc)
      [] fn \in {"compute_visibility", "clear_invisible_answers"} -> acc
      [] OTHER ->
            IF DOMAIN acc.field_errors # {}
            THEN [raised |-> "FieldValidationError", field_errors |-> acc.field_errors,
                  normalized |-> EmptyMap]
            ELSE [raised |-> "", field_errors |-> acc.field_errors,
                  normalized |-> KeepVisible(acc.normalized, vis)]

\* the same call on its own
RunAlone(cat, fn, ans, vis, quote_id) ==
    CASE fn = "build_quote" -> build_quote(cat, ans, quote_id)
      [] fn = "compute_visibility" -> compute_visibility(cat, ans, EmptyMap)
      [] fn = "clear_invisible_answers" -> clear_invisible_answers(ans, vis)
      [] OTHER -> validate_answers(cat, ans, vis, TRUE)

\* the invocation as it is called: `answers` is the mapping as it was when the call
\* was made, `input` the address of the caller's mapping
Frame(n, fn, ans, vis, quote_id) ==
    [fn |-> fn, answers |-> ans, input |-> n, visible |-> vis, quote_id |-> quote_id,
     pc |-> "called", i |-> 0, acc |-> 0, result |-> None]

InitInterleaved ==
    /\ catalog \in {Catalog(rs, Pricing) : rs \in InterleavedRuleLists}
    /\ \E calls \in [Invocations -> InterleavedCalls] :
          /\ frames = [n \in Invocations |->
                          Frame(n, calls[n][1], calls[n][2],
                                IF calls[n][3] = "all" THEN AllVisible(catalog)
                                ELSE SledHidden(catalog),
                                "quote-a")]
          /\ heap = [n \in Invocations |-> calls[n][2]]
    /\ cache = None /\ files = None /\ session = None
    /\ pc = "serving"
    /\ answers = None /\ visible = None /\ require_all_required = None /\ result = None
    /\ NoLoop /\ NoRequest /\ NoEval
    /\ log = << >>

\* the function is entered: it builds its accumulator and its environment
Enter(n) ==
    /\ frames[n].pc = "called"
    /\ LET f == frames[n]
           addr == IF f.fn = "clear_invisible_answers" THEN DictCopy(heap, f.input)
                   ELSE Allocate(heap, f.fn)
       IN /\ heap' = Store(heap, addr, Accumulator(catalog, f.fn, heap[f.input]))
          /\ frames' = [frames EXCEPT ![n].pc = "loop", ![n].i = 1, ![n].acc = addr]
    /\ UNCHANGED <<session, catalog, payload, call, cache, files, pc, answers, visible,
                   require_all_required, result, rule_i, op_j, cur_ops, pass, quote,
                   response, log>>

\* one iteration of the function's loop
Iterate(n) ==
    /\ frames[n].pc = "loop"
    /\ LET f == frames[n] IN
       /\ f.i <= Len(LoopItems(catalog, f.fn))
       /\ Looping(f.fn, heap[f.acc])
       /\ heap' = Store(heap, f.acc,
                        LoopStep(catalog, f.fn, heap[f.input], f.visible,
                                 LoopItems(catalog, f.fn)[f.i], heap[f.acc]))
    /\ frames' = [frames EXCEPT ![n].i = @ + 1]
    /\ UNCHANGED <<session, catalog, payload, call, cache, files, pc, answers, visible,
                   require_all_required, result, rule_i, op_j, cur_ops, pass, quote,
                   response, log>>

\* the loop is over: the function returns or raises
Leave(n) ==
    /\ frames[n].pc = "loop"
    /\ LET f == frames[n] IN
       /\ f.i > Len(LoopItems(catalog, f.fn)) \/ ~Looping(f.fn, heap[f.acc])
       /\ frames' = [frames EXCEPT
                        ![n].pc = "returned",
                        ![n].result = LoopResult(catalog, f.fn, heap[f.input], f.visible,
                                                 f.quote_id, heap[f.acc])]
    /\ log' = Append(log, n)
    /\ UNCHANGED <<session, catalog, payload, call, cache, files, heap, pc, answers, visible,
                   require_all_required, result, rule_i, op_j, cur_ops, pass, quote,
                   response>>

NextInterleaved == \E n \in Invocations : Enter(n) \/ Iterate(n) \/ Leave(n)

SpecInterleaved == InitInterleaved /\ [][NextInterleaved]_vars

\* the invocation has returned what the same call returns on its own
AsAlone(n) ==
    frames[n].result = RunAlone(catalog, frames[n].fn, frames[n].answers, frames[n].visible,
                                frames[n].quote_id)

\* C25: two invocations of build_quote, compute_visibility or validate_answers that
\* run interleaved on the same catalog each return exactly what they return run
\* alone
C25_InterleavedAsAlone ==
    \A n \in Invocations : frames[n].pc = "returned" => AsAlone(n)

\* two build_quote calls on different answers have run with their iterations
\* interleaved, the second entered while the first was in its loop, and each has
\* its own multipliers
C25_Witness ==
    /\ \A n \in Invocations : frames[n].pc = "returned" /\ frames[n].fn = "build_quote"
    /\ frames[1].answers # frames[2].answers
    /\ log = << 2, 1 >>
    /\ frames[1].acc = MaxInvocations + 1 /\ frames[2].acc = MaxInvocations + 2
    /\ heap[frames[1].acc].pricing.multipliers # heap[frames[2].acc].pricing.multipliers
    /\ frames[1].result.raised = "" /\ frames[2].result.raised = ""

\* the mapping every invocation was given is as it was when the call was made
InputsAsGiven == \A n \in Invocations : heap[frames[n].input] = frames[n].answers

\* a call of clear_invisible_answers has returned
Cleared(n) == frames[n].fn = "clear_invisible_answers" /\ frames[n].pc = "returned"

\* what clear_invisible_answers returned is a mapping of its own that holds what the
\* input holds for every field not hidden, and nothing for a hidden one
NewMappingOfVisible(n) ==
    LET f == frames[n] IN
    /\ f.acc # f.input
    /\ \A fid \in DOMAIN f.answers :
          f.visible[fid] => fid \in DOMAIN f.result /\ f.result[fid] = f.answers[fid]
    /\ \A fid \in DOMAIN f.result : fid \in DOMAIN f.answers /\ f.visible[fid]

\* C26: compute_visibility, clear_invisible_answers, validate_answers and build_quote
\* modify neither the catalog nor the answers mapping they were given, and
\* clear_invisible_answers returns a new mapping that agrees with the input on every
\* visible field
C26_InputsUnchanged ==
    /\ [](InputsAsGiven /\ \A n \in Invocations : Cleared(n) => NewMappingOfVisible(n))
    /\ [][catalog' = catalog]_vars

\* clear_invisible_answers has dropped the answers of the hidden fields from its own
\* mapping, and the caller's mapping still holds them
C26_Witness ==
    /\ Cleared(1)
    /\ "FLD_SLED_TYPE" \in DOMAIN heap[frames[1].input]
    /\ "FLD_SLED_TYPE" \notin DOMAIN frames[1].result
    /\ "FLD_INSURED_SUM" \in DOMAIN frames[1].result
    /\ frames[2].fn = "build_quote" /\ frames[2].pc = "returned"
    /\ heap[frames[2].input] = frames[2].answers

-----------------------------------------------------------------------------
(* Empty answers of required fields, under SpecValidate                    *)

\* an answer that is empty: null, the empty string, or an empty list for a field of
\* string lists
EmptyAnswer(f, v) ==
    \/ v = NullV
    \/ v = StrV("")
    \/ f.data_type = "string[]" /\ v = ListV(<< >>)

\* the required fields that are not hidden and whose submitted answer is empty
RequiredEmpty ==
    {i \in DOMAIN fields(catalog) :
        /\ fields(catalog)[i].required
        /\ ~Invisible(visible, fields(catalog)[i].field_id)
        /\ fields(catalog)[i].field_id \in DOMAIN answers
        /\ EmptyAnswer(fields(catalog)[i], answers[fields(catalog)[i].field_id])}

\* the field is reported as required, and the outcome is the one of the same answers
\* without its key
AsIfAbsent(fid) ==
    /\ result.raised = "FieldValidationError"
    /\ fid \in DOMAIN result.field_errors
    /\ result.field_errors[fid] = "required"
    /\ result = validate_answers(catalog, Remove(answers, fid), visible, require_all_required)

\* C27: with require_all_required=true, a required visible field whose answer is
\* empty (null, the empty string, or an empty list for a string-list field) is
\* reported with a required-field error exactly as if the field were absent
C27_EmptyIsRequiredError ==
    (Returned /\ require_all_required) =>
        \A i \in RequiredEmpty : AsIfAbsent(fields(catalog)[i].field_id)

\* an empty list was submitted for the required list of objects, and validation
\* passed with the empty list among the normalized answers
C27_Witness ==
    /\ Returned /\ require_all_required
    /\ \E i \in RequiredEmpty : fields(catalog)[i].field_id = "FLD_OBJECTS_SELECTED"
    /\ result.raised = ""
    /\ result.normalized["FLD_OBJECTS_SELECTED"] = ListV(<< >>)

\* what the code does: null and the empty string count as not provided; an empty list
\* counts as provided, is validated as a list, and raises no error of its own
C27_EmptyListIsProvided ==
    (Returned /\ require_all_required) =>
        \A i \in RequiredEmpty :
            LET fid == fields(catalog)[i].field_id IN
            IF answers[fid] = ListV(<< >>)
            THEN /\ fid \notin DOMAIN result.field_errors
                 /\ result.raised = "" => result.normalized[fid] = ListV(<< >>)
            ELSE AsIfAbsent(fid)

-----------------------------------------------------------------------------
(* _apply_risk_category_gates, app/ui/router.py                            *)

\* a field of the risk screen or of another screen, filtered by a risk category or not
GateField(field_id, screen_id, category) ==
    [field_id |-> field_id, data_type |-> "string[]", required |-> FALSE,
     dictionary_id |-> "DICT_RISKS", constraints |-> NoConstraints,
     screen_id |-> screen_id, category |-> category]

\* risk fields: of a gated category, of a category without a gate, of no category,
\* of a category no item declares, and a field of a gated category on another screen
GateFields ==
    << GateField("FLD_RISKS_SLED", "SCR_03_RISKS", "CAT_SLED"),
       GateField("FLD_RISKS_HOME", "SCR_03_RISKS", "CAT_HOME"),
       GateField("FLD_RISKS_MISC", "SCR_03_RISKS", ""),
       GateField("FLD_RISKS_LOST", "SCR_03_RISKS", "CAT_LOST"),
       GateField("FLD_SLED_EXTRAS", "SCR_01_CONDITIONS", "CAT_SLED") >>

\* the risk categories: one gated by the sled, one by nothing
GateCategories ==
    << [id |-> "CAT_SLED", weight |-> 0, object_gate |-> "OBJ_SLED"],
       [id |-> "CAT_HOME", weight |-> 0, object_gate |-> ""] >>

\* catalogs with and without the dictionary of risk categories
GateCatalogs ==
    {[Catalog(<< >>, NoPricing) EXCEPT
         !.fields = GateFields,
         !.dictionaries = [d \in (DOMAIN Dictionaries) \ drop |->
                              IF d = "DICT_RISK_CATEGORIES" THEN GateCategories
                              ELSE Dictionaries[d]]] :
        drop \in {{}, {"DICT_RISK_CATEGORIES"}}}

\* what the answers hold for the selected objects
GateSelections ==
    {Absent, NullV, ListV(<< >>), ListV(<< StrV("OBJ_SANTA") >>), ListV(<< StrV("OBJ_SLED") >>),
     ListV(<< StrV("OBJ_ALL_RISKS") >>), ListV(<< StrV("OBJ_SANTA"), StrV("OBJ_SLED") >>),
     ListV(<< StrV("OBJ_SANTA"), StrV("OBJ_ALL_RISKS") >>)}

\* selected = set(answers.get("FLD_OBJECTS_SELECTED") or [])
SelectedObjects(ans) ==
    IF "FLD_OBJECTS_SELECTED" \notin DOMAIN ans THEN {}
    ELSE IF ans["FLD_OBJECTS_SELECTED"].t # "list" THEN {}
    ELSE {ans["FLD_OBJECTS_SELECTED"].l[i].s : i \in DOMAIN ans["FLD_OBJECTS_SELECTED"].l}

\* catalog.fields_for_screen("SCR_03_RISKS")
fields_for_screen(cat, screen_id) ==
    SelectSeq(fields(cat), LAMBDA f : f.screen_id = screen_id)

\* cat_gate.get(category_id): the object_gate of the category's item, "" when there
\* is none
GateOf(cat, category_id) ==
    LET its == dictionary_items(cat, "DICT_RISK_CATEGORIES") IN
    IF \E i \in DOMAIN its : its[i].id = category_id
    THEN its[CHOOSE i \in DOMAIN its : its[i].id = category_id /\
                \A j \in DOMAIN its : its[j].id = category_id => j <= i].object_gate
    ELSE ""

\* the gate replaces the rule's decision
GatedVisible_replaced(vis, fid, has_all, gate, selected) == has_all \/ gate \in selected

\* bool(visible.get(fid, True) and (has_all or gate in selected))
GatedVisible(vis, fid, has_all, gate, selected) ==
    (IF fid \in DOMAIN vis THEN vis[fid] ELSE TRUE) /\ (has_all \/ gate \in selected)

\* one iteration of "for f in catalog.fields_for_screen(...)"
ApplyGate(cat, ans, vis, f) ==
    IF GateOf(cat, f.category) # ""
    THEN Put(vis, f.field_id,
             GatedVisible(vis, f.field_id, "OBJ_ALL_RISKS" \in SelectedObjects(ans),
                          GateOf(cat, f.category), SelectedObjects(ans)))
    ELSE vis

InitGates ==
    /\ catalog \in GateCatalogs
    /\ answers \in {IF s = Absent THEN EmptyMap ELSE [FLD_OBJECTS_SELECTED |-> s] :
                       s \in GateSelections}
    /\ visible \in [FieldIds(catalog) -> BOOLEAN]
    /\ pc = "called"
    /\ rule_i = None
    /\ result = None
    /\ require_all_required = None /\ op_j = None /\ cur_ops = None /\ pass = None
    /\ NoRequest /\ NoEval /\ NoProcess
    /\ log = << >>

\* selected, has_all and cat_gate are built; without the dictionary the map is
\* returned as it came
GateEnter ==
    /\ pc = "called"
    /\ log' = Append(log, [fid |-> "", visible |-> visible])
    /\ IF "DICT_RISK_CATEGORIES" \notin DOMAIN catalog.dictionaries
       THEN pc' = "returned" /\ result' = visible /\ UNCHANGED rule_i
       ELSE pc' = "fields" /\ rule_i' = 1 /\ UNCHANGED result
    /\ UNCHANGED <<session, catalog, payload, call, cache, files, frames, heap, answers, visible,
                   require_all_required, op_j, cur_ops, pass, quote, response>>

\* the loop body for the next field of the risk screen: `visible` is written in place
GateNext ==
    /\ pc = "fields"
    /\ rule_i <= Len(fields_for_screen(catalog, "SCR_03_RISKS"))
    /\ visible' = ApplyGate(catalog, answers, visible,
                            fields_for_screen(catalog, "SCR_03_RISKS")[rule_i])
    /\ log' = Append(log, [fid |-> fields_for_screen(catalog, "SCR_03_RISKS")[rule_i].field_id,
                           visible |-> visible'])
    /\ rule_i' = rule_i + 1
    /\ UNCHANGED <<session, catalog, payload, call, cache, files, frames, heap, pc, answers,
                   require_all_required, result, op_j, cur_ops, pass, quote, response>>

\* return visible
GateReturn ==
    /\ pc = "fields"
    /\ rule_i > Len(fields_for_screen(catalog, "SCR_03_RISKS"))
    /\ pc' = "returned"
    /\ result' = visible
    /\ UNCHANGED <<session, catalog, payload, call, cache, files, frames, heap, answers, visible,
                   require_all_required, rule_i, op_j, cur_ops, pass, quote, response, log>>

NextGates == GateEnter \/ GateNext \/ GateReturn

SpecGates == InitGates /\ [][NextGates]_vars

\* the visibility the rules computed: the map as it was handed over
RuleVisible == log[1].visible

\* the gate object of a field: that of its category when the field is on the risk
\* screen and the catalog declares risk categories, "" otherwise
ObjectGate(f) ==
    IF f.screen_id = "SCR_03_RISKS" /\ "DICT_RISK_CATEGORIES" \in DOMAIN catalog.dictionaries
    THEN GateOf(catalog, f.category) ELSE ""

\* C28: for every risk-screen field whose category has an object gate the visibility
\* after _apply_risk_category_gates is the rule-computed one AND (OBJ_ALL_RISKS is
\* selected OR the gate object is selected); no rule-hidden field turns visible, and a
\* field without a gate keeps its rule-computed visibility
C28_GateComposesWithRules ==
    pc = "returned" =>
        /\ DOMAIN result = DOMAIN RuleVisible
        /\ \A i \in DOMAIN fields(catalog) :
              LET f == fields(catalog)[i] IN
              /\ ObjectGate(f) # "" =>
                    result[f.field_id] =
                        (RuleVisible[f.field_id]
                         /\ ("OBJ_ALL_RISKS" \in SelectedObjects(answers)
                             \/ ObjectGate(f) \in SelectedObjects(answers)))
              /\ ObjectGate(f) = "" => result[f.field_id] = RuleVisible[f.field_id]
              /\ ~RuleVisible[f.field_id] => ~result[f.field_id]

\* the sled is not selected: the gate has hidden the sled's risks the rules showed,
\* and has left hidden a field the rules hid, and shown the ungated ones
C28_Witness ==
    /\ pc = "returned"
    /\ Len(log) > 1
    /\ SelectedObjects(answers) = {"OBJ_SANTA"}
    /\ RuleVisible["FLD_RISKS_SLED"] /\ ~result["FLD_RISKS_SLED"]
    /\ RuleVisible["FLD_RISKS_HOME"] /\ result["FLD_RISKS_HOME"]
    /\ ~RuleVisible["FLD_RISKS_MISC"] /\ ~result["FLD_RISKS_MISC"]
    /\ RuleVisible["FLD_SLED_EXTRAS"] /\ result["FLD_SLED_EXTRAS"]

-----------------------------------------------------------------------------
(* compute_computed, one entry per step                                    *)

\* {"computed_id": ..., "expr": ...}
ComputedEntry(computed_id, expr) == [computed_id |-> computed_id, expr |-> expr]

\* entries of the catalog: one over the answers, one that refers to it, one that
\* refers to that one, one that adds to the first
EntryDouble ==
    ComputedEntry("CMP_DOUBLE",
                  BinOpNode("Mult", Attr("answers", "FLD_INSURED_SUM"), Num("2")))
EntryRef == ComputedEntry("CMP_REF", Attr("computed", "CMP_DOUBLE"))
EntryCoalesce ==
    ComputedEntry("CMP_COALESCE",
                  Call(Name("coalesce"), << Attr("computed", "CMP_REF"), Num("7") >>))
EntryPlus ==
    ComputedEntry("CMP_PLUS", BinOpNode("Add", Attr("computed", "CMP_DOUBLE"), Num("1")))

ComputedPool == {EntryDouble, EntryRef, EntryCoalesce, EntryPlus}

\* how many computed entries a catalog of the model holds
MaxComputed == 3

\* the lists of entries with no id twice
ComputedLists ==
    {cs \in UNION {[1..n -> ComputedPool] : n \in 0..MaxComputed} :
        \A i, j \in DOMAIN cs : i # j => cs[i] # cs[j]}

\* an expression over the computed map, with a value to fall back on
DoubleOrDefault == Call(Name("coalesce"), << Attr("computed", "CMP_DOUBLE"), Num("5") >>)

\* a pricing section whose two formulas are that expression
FormulaPricing ==
    [Pricing EXCEPT !.tariff_formula = [tariff_total_expr |-> DoubleOrDefault,
                                        premium_total_expr |-> DoubleOrDefault]]

\* a pricing rule that stores the value of the same expression and finalizes
RuleFromComputed ==
    PricingRule(Absent, << PricingSet("base_rate", DoubleOrDefault), PricingCompute(<< >>) >>)

InitComputed ==
    /\ catalog \in {[Catalog(<< RuleFromComputed >>, FormulaPricing) EXCEPT !.computed = cs] :
                       cs \in ComputedLists}
    /\ answers \in {BaseAnswers, Deviate([FLD_INSURED_SUM |-> IntV(100)])}
    /\ pc = "entries"
    /\ rule_i = 1
    /\ result = [raised |-> "", computed |-> EmptyMap]
    /\ visible = None /\ require_all_required = None
    /\ op_j = None /\ cur_ops = None /\ pass = None
    /\ NoRequest /\ NoEval /\ NoProcess
    /\ log = << >>

\* the body of "for c in catalog.computed()": the namespace is renewed, the entry is
\* evaluated and stored
CcEval ==
    /\ pc = "entries"
    /\ rule_i <= Len(catalog.computed)
    /\ LET c == catalog.computed[rule_i]
           seen == ComputedSoFar(result.computed)
           r == safe_eval(c.expr, ComputedCx(catalog, answers, seen, build_params(catalog)))
       IN IF r.raised # ""
          THEN /\ pc' = "raised"
               /\ result' = [result EXCEPT !.raised = r.raised]
               /\ UNCHANGED <<rule_i, log>>
          ELSE /\ result' = [result EXCEPT !.computed = Put(@, c.computed_id, r.v)]
               /\ log' = Append(log, [i |-> rule_i, computed_id |-> c.computed_id,
                                      seen |-> seen, value |-> r.v])
               /\ rule_i' = rule_i + 1
               /\ UNCHANGED pc
    /\ UNCHANGED <<session, catalog, payload, call, cache, files, frames, heap, answers, visible,
                   require_all_required, op_j, cur_ops, pass, quote, response>>

\* return computed
CcReturn ==
    /\ pc = "entries"
    /\ rule_i > Len(catalog.computed)
    /\ pc' = "returned"
    /\ UNCHANGED <<session, catalog, payload, call, cache, files, frames, heap, answers, visible,
                   require_all_required, result, rule_i, op_j, cur_ops, pass, quote,
                   response, log>>

\* build_quote goes on: pricing, outputs = execute_pricing(catalog, answers, computed,
\* params)
CcPrice ==
    /\ pc = "returned"
    /\ pc' = "priced"
    /\ pass' = execute_pricing(catalog, answers, result.computed, build_params(catalog))
    /\ UNCHANGED <<session, catalog, payload, call, cache, files, frames, heap, answers, visible,
                   require_all_required, result, rule_i, op_j, cur_ops, quote, response, log>>

NextComputed == CcEval \/ CcReturn \/ CcPrice

SpecComputed == InitComputed /\ [][NextComputed]_vars

\* the loop, step by step, ends where compute_computed ends
ComputedStepsAgree ==
    pc \in {"returned", "raised"} =>
        result = compute_computed(catalog, answers, build_params(catalog))

\* the values of the entries before the k-th, by id
EarlierValues(k) ==
    [cid \in {catalog.computed[j].computed_id : j \in 1..(k - 1)} |->
        log[CHOOSE j \in 1..(k - 1) : catalog.computed[j].computed_id = cid].value]

\* the positions of the entries in the catalog
PositionOf(entry) == {i \in DOMAIN catalog.computed : catalog.computed[i] = entry}

\* C29: the computed entries are evaluated once each, in the order of the catalog;
\* when entry i is evaluated the `computed` namespace holds exactly the values of the
\* entries before it, so a reference to an earlier entry yields its value and a
\* reference to a later entry does not
C29_SequentialSinglePass ==
    /\ \A k \in DOMAIN log :
          /\ log[k].i = k
          /\ log[k].computed_id = catalog.computed[k].computed_id
          /\ log[k].seen = EarlierValues(k)
    /\ pc = "returned" => Len(log) = Len(catalog.computed)
    /\ \A k \in DOMAIN log : \A d \in PositionOf(EntryDouble) :
          catalog.computed[k] = EntryRef =>
              /\ d < k => log[k].value = log[d].value
              /\ d > k => log[k].value = NullV
    /\ \A d \in PositionOf(EntryDouble) : d \in DOMAIN log => log[d].value # NullV

\* an entry has referred to the one before it and got its value, and the next one
\* has seen both
C29_Witness ==
    /\ pc = "returned"
    /\ catalog.computed = << EntryDouble, EntryRef, EntryCoalesce >>
    /\ answers = BaseAnswers
    /\ log[2].value = DecV(600, 0)
    /\ log[3].seen = [CMP_DOUBLE |-> DecV(600, 0), CMP_REF |-> DecV(600, 0)]
    /\ log[3].value = DecV(600, 0)

\* an entry has referred to one behind it and got null
C29_ForwardReferenceIsNull ==
    /\ pc = "returned"
    /\ catalog.computed = << EntryRef, EntryDouble, EntryCoalesce >>
    /\ log[1].value = NullV
    /\ log[2].value # NullV
    /\ log[3].value = DecV(7, 0)

\* prices have been worked out over a computed map that holds CMP_DOUBLE
PricedOverComputed ==
    pc = "priced" /\ pass.raised = "" /\ "CMP_DOUBLE" \in DOMAIN result.computed

\* C30: during finalize the tariff-total and premium-total formulas see the same
\* `computed` map as the pricing rules' expressions: computed.X inside a formula
\* yields the value computed evaluation produced for X
C30_FormulasSeeComputed ==
    PricedOverComputed =>
        /\ pass.pricing.base_rate = result.computed["CMP_DOUBLE"]
        /\ pass.pricing.tariff_total = result.computed["CMP_DOUBLE"]
        /\ pass.pricing.tariff_total = pass.pricing.base_rate

\* the rule has stored the computed value, and the formula, the same expression, has
\* given the fall-back value
C30_Witness ==
    /\ PricedOverComputed
    /\ answers = BaseAnswers
    /\ result.computed["CMP_DOUBLE"] = DecV(600, 0)
    /\ pass.pricing.base_rate = DecV(600, 0)
    /\ pass.pricing.tariff_total = DecV(5, 0)

\* what the code does: the rules' expressions see the computed map; the formulas are
\* evaluated in an environment built anew, whose `computed` is empty
C30_FormulasSeeEmptyComputed ==
    PricedOverComputed =>
        /\ pass.pricing.base_rate = result.computed["CMP_DOUBLE"]
        /\ pass.pricing.tariff_total = DecV(5, 0)
        /\ pass.pricing.premium_total = IntV(5)
        /\ DirectCx(catalog, answers, build_params(catalog), pass.pricing).env["computed"]
              = NsV(EmptyMap)
        /\ PricingCx(catalog, answers, result.computed, build_params(catalog),
                     pass).env["computed"] = NsV(result.computed)

-----------------------------------------------------------------------------
(* The outputs of finalize in the quote, under SpecQuote                   *)

SpecialForms == {"computeTariffTotal()", "computePremiumTotal()", "computeBreakdown()"}

\* the pricing_compute operations of the catalog whose outputs the pass returned
ReachedFinalize(cat, ps) ==
    {op \in UNION {Range(rules(cat)[i].then) : i \in DOMAIN rules(cat)} :
        /\ op.op = "pricing_compute"
        /\ ps.returned
        /\ {op.outputs[k].target_field_id : k \in DOMAIN op.outputs} = DOMAIN ps.outputs}

\* the value of the accumulator st a special form stands for
AccumulatorValue(text, st) ==
    CASE text = "computeTariffTotal()" -> st.tariff_total
      [] text = "computePremiumTotal()" -> st.premium_total
      [] text = "computeBreakdown()" -> breakdown(st)

\* the number v as the quote carries it: FLD_TARIFF_TOTAL and tariff_total as the
\* float of the decimal, FLD_PREMIUM_TOTAL as an integer
InQuote(fid, v) ==
    IF fid \in {"FLD_TARIFF_TOTAL", "tariff_total"} THEN ToFloat(v).v
    ELSE IF fid = "FLD_PREMIUM_TOTAL" THEN ToInt(v).v
    ELSE v

\* the totals of the accumulator are the ones its formulas give on it
TotalsJustComputed(cat, ans, st) ==
    /\ Ret(st.tariff_total) = _computeTariffTotal(cat, ans, st, build_params(cat))
    /\ Ret(st.premium_total) = _computePremiumTotal(cat, ans, st, build_params(cat))

\* the keys build_quote writes itself; every other key of a quote is an output field
QuoteKeys ==
    {"quoteId", "currency", "premium_total", "tariff_total", "breakdown", "computed",
     "validatedAnswers", "warnings"}

FieldKeys(q) == DOMAIN q \ QuoteKeys

\* C31: in a quote built by a pass that reached finalize, every output whose value_expr
\* is exactly computeTariffTotal(), computePremiumTotal() or computeBreakdown() holds
\* the accumulator's tariff_total, premium_total or breakdown as that finalize computed
\* them, and the quote's premium_total, tariff_total and breakdown are those same
\* values; a quote of a pass that reached no finalize has premium_total 0 and no
\* output field.
C31_SpecialFormsAreAccumulatorValues ==
    (quote # None /\ quote.raised = "") =>
        /\ pass.raised = ""
        /\ quote.quote.premium_total = pass.pricing.premium_total
        /\ quote.quote.tariff_total = InQuote("tariff_total", pass.pricing.tariff_total)
        /\ quote.quote.breakdown = breakdown(pass.pricing)
        /\ IF pass.returned
           THEN /\ TotalsJustComputed(catalog, answers, pass.pricing)
                /\ ReachedFinalize(catalog, pass) # {}
                /\ \A op \in ReachedFinalize(catalog, pass) :
                      \A k \in DOMAIN op.outputs :
                          op.outputs[k].text \in SpecialForms =>
                              quote.quote[op.outputs[k].target_field_id] =
                                  InQuote(op.outputs[k].target_field_id,
                                          AccumulatorValue(op.outputs[k].text, pass.pricing))
           ELSE /\ quote.quote.premium_total = IntV(0)
                /\ FieldKeys(quote.quote) = {}

\* C31 witness: a pass that was reset and then reached finalize gave a quote whose
\* three output fields and totals hold a tariff and a premium above zero
C31_Witness ==
    /\ quote # None /\ quote.raised = ""
    /\ pass.returned
    /\ ~pass.shared
    /\ pass.pricing.tariff_total.m > 0
    /\ quote.quote.premium_total.i > 0
    /\ {"FLD_TARIFF_TOTAL", "FLD_PREMIUM_TOTAL", "FLD_BREAKDOWN"} \subseteq DOMAIN quote.quote
    /\ quote.quote["FLD_PREMIUM_TOTAL"] = pass.pricing.premium_total

\* a quote of a pass that reached no finalize
C31_NoFinalizeWitness ==
    /\ quote # None /\ quote.raised = ""
    /\ ~pass.returned
    /\ pass.pricing.base_rate.m > 0

-----------------------------------------------------------------------------
(* Short-circuit evaluation of and/or, under SpecEval                      *)

\* the value that decides a BoolOp: a truthy operand of an Or, a falsy one of an And
Decides(node, r) == r.raised = "" /\ Truthy(r.v) = (node.op = "Or")

\* the position of the first deciding operand of node, the ones before it having
\* evaluated to values that do not decide; 0 when there is none
FirstDeciding(node, cx) ==
    LET d == {i \in DOMAIN node.values :
                 /\ Decides(node, Visit(node.values[i], cx))
                 /\ \A j \in 1..(i - 1) :
                       /\ Visit(node.values[j], cx).raised = ""
                       /\ ~Decides(node, Visit(node.values[j], cx))}
    IN IF d = {} THEN 0 ELSE CHOOSE i \in d : TRUE

\* the events of the operands of node that belong to no operand up to position i
LaterOnly(node, i, cx) ==
    UNION {{Visited(n) : n \in Nodes(node.values[j])}
           \cup {Invoked(n.func.id) :
                    n \in {c \in Nodes(node.values[j]) : c.k = "Call" /\ c.func.k = "Name"}}
           \cup {ReadName(n.id) : n \in {c \in Nodes(node.values[j]) : c.k = "Name"}} :
           j \in (i + 1)..Len(node.values)}
    \ UNION {Trace(node.values[j], cx) : j \in 1..i}

\* C32: and/or evaluate their operands from left to right and stop at the first
\* falsy operand of an And, the first truthy operand of an Or: the operands up to
\* that one are visited, no operand after it is visited, no name in it read and no
\* callable in it invoked, and the operation gives False (And) or True (Or) whatever
\* the later operands would have raised.
C32_ShortCircuit ==
    (EvalDone /\ EvalParsed) =>
        \A n \in Nodes(Tree) :
            (n.k = "BoolOp" /\ Visited(n) \in EvalTrace /\ FirstDeciding(n, EvalCx) > 0) =>
                LET i == FirstDeciding(n, EvalCx) IN
                /\ \A j \in 1..i : Visited(n.values[j]) \in Trace(n, EvalCx)
                /\ Trace(n, EvalCx) \cap LaterOnly(n, i, EvalCx) = {}
                /\ Visit(n, EvalCx) = Ret(BoolV(n.op = "Or"))
                /\ n = Tree =>
                      /\ result = Ret(BoolV(n.op = "Or"))
                      /\ EvalTrace \cap LaterOnly(n, i, EvalCx) = {}

\* C32 witness: an Or whose second operand is truthy has returned True though its
\* third operand is a name the configuration rejects, and the first two were read
C32_Witness ==
    /\ EvalDone /\ EvalParsed
    /\ call.expr = "b || a || secret"
    /\ "secret" \notin call.cfg.allowed_names
    /\ FirstDeciding(Tree, EvalCx) = 2
    /\ ReadName("b") \in EvalTrace /\ ReadName("a") \in EvalTrace
    /\ Visited(Name("secret")) \notin EvalTrace
    /\ result = Ret(BoolV(TRUE))

\* an And whose first operand is falsy has returned False, the callable of its last
\* operand not invoked
C32_AndWitness ==
    /\ EvalDone /\ EvalParsed
    /\ call.expr = "a && b && count(x)"
    /\ FirstDeciding(Tree, EvalCx) = 1
    /\ Visited(Name("b")) \notin EvalTrace
    /\ result = Ret(BoolV(FALSE))

\* an Or has returned True without invoking the allowed callable of its second operand
C32_CallableNotInvoked ==
    /\ EvalDone /\ EvalParsed
    /\ call.expr = "a || round(x)"
    /\ "round" \in call.cfg.allowed_callables
    /\ Invoked("round") \notin EvalTrace
    /\ ReadName("x") \notin EvalTrace
    /\ result = Ret(BoolV(TRUE))

-----------------------------------------------------------------------------
(* The rewriting of numeric literals, under SpecEval                       *)

\* the text _wrap_numbers_as_decimal is handed: the one behind the replacements of
\* the operators and of Math.min
BeforeWrap(s) ==
    ReplaceAll(ReplaceNot(ReplaceAll(ReplaceAll(ReplaceAll(s, 1, "===", "=="),
                                                1, "&&", " and "),
                                     1, "||", " or "),
                          1),
               1, "Math.min", "min")

\* expr with its numeric literals, and nothing else, turned into Decimal('...'): a
\* run of digits and points outside a string that does not continue a name
RECURSIVE LiteralsWrapped(_, _, _)
LiteralsWrapped(expr, i, in_str) ==
    IF i > Len(expr) THEN ""
    ELSE LET ch == Char(expr, i) IN
         IF OpensOrCloses(expr, i) THEN ch \o LiteralsWrapped(expr, i + 1, ~in_str)
         ELSE IF ~in_str /\ IsDigit(ch) /\ (i = 1 \/ ~IsWordChar(Char(expr, i - 1)))
              THEN LET j == NumberEnd(expr, i) IN
                   "Decimal('" \o SubSeq(expr, i, j - 1) \o "')"
                       \o LiteralsWrapped(expr, j, in_str)
         ELSE ch \o LiteralsWrapped(expr, i + 1, in_str)

\* the rewriting step of the call has run
WrapDone == Len(log) >= 3
WrapIn == BeforeWrap(log[3].in)
WrapOut == log[3].out

\* the namespaces of the environment an expression of the call may read from
ReadableRoots ==
    {n \in DOMAIN call.env :
        /\ call.env[n].t = "ns"
        /\ n \in call.cfg.allowed_names
        /\ n \in call.cfg.allowed_attr_roots}

\* C33 as stated: the rewriting step turns the numeric literals of the text, and
\* nothing else, into exact-decimal constructors; digits in a single-quoted string
\* and digits of a name stay as they are, so a reference root.attr to an allowed
\* namespace evaluates to the value the namespace holds for attr
C33_ExactlyTheLiterals ==
    /\ WrapDone => WrapOut = LiteralsWrapped(WrapIn, 1, FALSE)
    /\ EvalDone =>
          \A root \in ReadableRoots :
              \A attr \in DOMAIN call.env[root].d :
                  call.expr = root \o "." \o attr => result = Ret(call.env[root].d[attr])

\* a text without a digit in a name
NoDigitInName(expr) ==
    \A i \in 2..Len(expr) : IsDigit(Char(expr, i)) => ~IsLetter(Char(expr, i - 1))
                                                       /\ Char(expr, i - 1) # "_"

\* what the step does: a text whose names hold no digit has exactly its literals
\* rewritten, and the digits of a string are never touched
C33_LiteralsOfDigitFreeNames ==
    (WrapDone /\ NoDigitInName(WrapIn)) => WrapOut = LiteralsWrapped(WrapIn, 1, FALSE)

\* C33 witness: the digit of params.k2 was rewritten and the evaluation failed
C33_Witness ==
    /\ EvalDone
    /\ call.expr = "params.k2"
    /\ "params" \in call.cfg.allowed_names
    /\ WrapOut = "params.kDecimal('2')"
    /\ result = Raise("ValueError")

\* the digits of a string stayed, a literal next to them did not matter
C33_StringWitness ==
    /\ EvalDone
    /\ call.expr = "'k2'"
    /\ WrapOut = "'k2'"
    /\ result = Ret(StrV("k2"))

-----------------------------------------------------------------------------
(* Single-quoted strings through js_to_python, under SpecEval              *)

\* the text is one single-quoted string literal
IsStringLiteral(expr) ==
    /\ Len(expr) >= 2
    /\ Char(expr, 1) = "'" /\ Char(expr, Len(expr)) = "'"
    /\ \A i \in 2..(Len(expr) - 1) : Char(expr, i) \notin {"'", "\\"}

\* the characters between the quotes
Contents(expr) == SubSeq(expr, 2, Len(expr) - 1)

\* C34 as stated: the literal 's' evaluates to s, whatever s holds
C34_StringContentsUnchanged ==
    (EvalDone /\ IsStringLiteral(Strip(call.expr))) =>
        result = Ret(StrV(Contents(Strip(call.expr))))

\* s holds something the replacements of js_to_python look for: one of the words
\* null, true, false, an operator ===, &&, ||, a '!' not followed by '=', Math.min
HasJsToken(s) ==
    \E i \in 1..Len(s) :
        \/ \E w \in DOMAIN _JS_NULLS : WordAt(s, i, w)
        \/ \E w \in {"===", "&&", "||", "Math.min"} : StartsAt(s, i, w)
        \/ Char(s, i) = "!" /\ i < Len(s) /\ Char(s, i + 1) # "="

\* what js_to_python does: the literal 's' evaluates to s when the text holds none of
\* the tokens the replacements look for (digits, '?' and ':' in a string are left
\* alone), and to another string when it holds one
C34_TokenFreeStringsUnchanged ==
    (EvalDone /\ IsStringLiteral(Strip(call.expr))) =>
        /\ result.raised = "" /\ result.v.t = "str"
        /\ HasJsToken(Strip(call.expr)) <=> result.v.s # Contents(Strip(call.expr))

\* C34 witness: the literal 'a && b' evaluated to another string
C34_Witness ==
    /\ EvalDone
    /\ call.expr = "'a && b'"
    /\ result = Ret(StrV("a  and  b"))

\* a string with '?' and ':' came through as it was
C34_TernaryCharsWitness ==
    /\ EvalDone
    /\ call.expr = "'x ? y : z'"
    /\ result = Ret(StrV("x ? y : z"))

-----------------------------------------------------------------------------
(* validate_answers on answers of any JSON type                            *)

\* a catalog with a field of every data_type validate_answers converts
TypedFields ==
    << [field_id |-> "FLD_INT", data_type |-> "int", required |-> FALSE,
        dictionary_id |-> "", constraints |-> [min |-> 100, max |-> 500, step |-> 100],
        screen_id |-> "SCR_01_CONDITIONS", category |-> ""],
       [field_id |-> "FLD_DEC", data_type |-> "decimal", required |-> FALSE,
        dictionary_id |-> "", constraints |-> NoConstraints,
        screen_id |-> "SCR_01_CONDITIONS", category |-> ""],
       [field_id |-> "FLD_STR", data_type |-> "string", required |-> TRUE,
        dictionary_id |-> "", constraints |-> [min_length |-> 2, max_length |-> 5],
        screen_id |-> "SCR_01_CONDITIONS", category |-> ""],
       [field_id |-> "FLD_LIST", data_type |-> "string[]", required |-> FALSE,
        dictionary_id |-> "DICT_SLED_TYPES", constraints |-> NoConstraints,
        screen_id |-> "SCR_01_CONDITIONS", category |-> ""],
       [field_id |-> "FLD_OBJ", data_type |-> "object", required |-> FALSE,
        dictionary_id |-> "", constraints |-> NoConstraints,
        screen_id |-> "SCR_01_CONDITIONS", category |-> ""] >>

TypedCatalog == [Catalog(<< >>, NoPricing) EXCEPT !.fields = TypedFields]

\* values of every JSON type: null, a boolean, an integer, a float, strings (a
\* number with blanks, a non-number, the empty one, a dictionary id), lists, an object
JsonValues ==
    {NullV, BoolV(TRUE), IntV(200), FloatV(15, 1), StrV(" 400 "), StrV("4x"), StrV(""),
     StrV("SLED_TURBO"), ListV(<< StrV("SLED_TURBO"), StrV("SLED_TURBO") >>),
     ListV(<< IntV(1) >>), ListV(<< >>), DictV([k |-> IntV(1)])}

\* how many keys an answer set holds
MaxAnswered == 2

TypedAnswers ==
    UNION {[K -> JsonValues] :
              K \in {K \in SUBSET FieldIds(TypedCatalog) : Cardinality(K) <= MaxAnswered}}

InitTyped ==
    /\ catalog = TypedCatalog
    /\ answers \in TypedAnswers
    /\ visible \in {EmptyMap} \cup
                   {[f \in FieldIds(TypedCatalog) |-> f # h] : h \in FieldIds(TypedCatalog)}
    /\ require_all_required \in BOOLEAN
    /\ pc = "validate_answers"
    /\ result = None
    /\ NoLoop
    /\ NoRequest
    /\ NoEval
    /\ NoProcess
    /\ log = << >>

SpecTyped == InitTyped /\ [][NextValidate]_vars

\* the value cannot be converted to the data_type
Unconvertible(data_type, v) ==
    CASE data_type = "int" ->
            v.t \in {"bool", "float", "list", "dict"} \/ (v.t = "str" /\ ~IntParses(v.s))
      [] data_type = "decimal" ->
            v.t \in {"bool", "list", "dict"} \/ (v.t = "str" /\ ~DecimalParses(v.s))
      [] data_type = "string" -> v.t # "str"
      [] data_type = "string[]" -> v.t \notin {"list", "str"}
      [] data_type = "object" -> v.t # "dict"

\* C35: for answers with values of any JSON type validate_answers returns normalized
\* answers or raises FieldValidationError and nothing else; an answer to a visible
\* field that cannot be converted to the field's data_type (a boolean, a float or a
\* non-numeric string for an int, a non-string for a string, a non-object for an
\* object) is an entry of the error map under that field.
C35_ConversionFailureIsFieldError ==
    Returned =>
        /\ result.raised \in {"", "FieldValidationError"}
        /\ \A i \in DOMAIN fields(catalog) :
              LET f == fields(catalog)[i] IN
              (/\ ~Invisible(visible, f.field_id)
               /\ Provided(answers, f.field_id)
               /\ Unconvertible(f.data_type, answers[f.field_id]))
                  => Failed400 /\ f.field_id \in DOMAIN result.field_errors

\* C35 witness: a float for the int field and a non-number for the decimal field
\* are both in the error map
C35_Witness ==
    /\ Returned
    /\ catalog = TypedCatalog
    /\ DOMAIN answers = {"FLD_INT", "FLD_DEC"}
    /\ answers["FLD_INT"] = FloatV(15, 1)
    /\ answers["FLD_DEC"] = StrV("4x")
    /\ Failed400
    /\ DOMAIN result.field_errors = {"FLD_INT", "FLD_DEC"}

\* values of every type that convert: the normalized answers are returned
C35_ConvertedWitness ==
    /\ Returned
    /\ catalog = TypedCatalog
    /\ DOMAIN answers = {"FLD_OBJ", "FLD_DEC"}
    /\ answers["FLD_OBJ"].t = "dict"
    /\ answers["FLD_DEC"].t = "float"
    /\ result.raised = ""
    /\ DOMAIN result.normalized = {"FLD_OBJ", "FLD_DEC"}

-----------------------------------------------------------------------------
(* compute_visibility, clear_invisible_answers and compute_visibility       *)
(* again (app/services/rules.py), as post_quote runs the first two          *)

\* a rule whose condition reads the answer of a field another rule may hide
RuleTurboRisks ==
    VisibilityRule(Compare(Attr("answers", "FLD_SLED_TYPE"), << "Eq" >>,
                           << Constant(StrV("SLED_TURBO")) >>),
                   << SetVisible("FLD_RISKS_SLED", BoolV(TRUE)) >>,
                   << SetVisible("FLD_RISKS_SLED", BoolV(FALSE)) >>)

ClearingRulePool == {RuleSledType, RuleRisks, RuleBigSum, RuleTurboRisks}

ClearingAnswers ==
    {BaseAnswers,
     Deviate([FLD_OBJECTS_SELECTED |-> ListV(<< StrV("OBJ_SANTA") >>)]),
     Deviate([FLD_OBJECTS_SELECTED |-> ListV(<< >>)]),
     Deviate([FLD_OBJECTS_SELECTED |-> ListV(<< StrV("OBJ_SANTA") >>),
              FLD_SLED_TYPE |-> StrV("SLED_CLASSIC")]),
     Deviate([FLD_INSURED_SUM |-> IntV(100), FLD_SLED_TYPE |-> Absent]),
     Deviate([FLD_INSURED_SUM |-> StrV("4x")])}

InitClearing ==
    /\ catalog \in {Catalog(rs, NoPricing) : rs \in RuleLists(ClearingRulePool)}
    /\ answers \in ClearingAnswers
    /\ pc = "visibility"
    /\ visible = None
    /\ require_all_required = None
    /\ result = None
    /\ NoLoop
    /\ NoRequest
    /\ NoEval
    /\ NoProcess
    /\ log = << >>

\* vis = compute_visibility(catalog, answers_in, computed_stub)
ClVisibility ==
    /\ pc = "visibility"
    /\ LET vis == compute_visibility(catalog, answers, EmptyMap) IN
       IF vis.raised # ""
       THEN pc' = "raised" /\ result' = vis /\ UNCHANGED visible
       ELSE pc' = "clear" /\ visible' = vis.visible /\ UNCHANGED result
    /\ log' = Append(log, Step("visibility", answers))
    /\ UNCHANGED <<session, catalog, payload, call, cache, files, frames, heap,
                   answers, require_all_required, rule_i, op_j, cur_ops, pass,
                   quote, response>>

\* answers_in = clear_invisible_answers(answers_in, vis)
ClClear ==
    /\ pc = "clear"
    /\ answers' = clear_invisible_answers(answers, visible)
    /\ log' = Append(log, Step("discard", answers))
    /\ pc' = "again"
    /\ UNCHANGED <<session, catalog, payload, call, cache, files, frames, heap,
                   visible, require_all_required, result, rule_i, op_j,
                   cur_ops, pass, quote, response>>

\* compute_visibility(catalog, answers_in, {}) on the cleared answers
ClAgain ==
    /\ pc = "again"
    /\ result' = compute_visibility(catalog, answers, EmptyMap)
    /\ log' = Append(log, Step("visibility", answers))
    /\ pc' = "returned"
    /\ UNCHANGED <<session, catalog, payload, call, cache, files, frames, heap,
                   answers, visible, require_all_required, rule_i, op_j,
                   cur_ops, pass, quote, response>>

NextClearing == ClVisibility \/ ClClear \/ ClAgain

SpecClearing == InitClearing /\ [][NextClearing]_vars

\* C36 as stated: for every rule set and answers A, with V = compute_visibility(A),
\* compute_visibility(clear_invisible_answers(A, V)) = V
C36_StableUnderClearing ==
    Returned => result.raised = "" /\ result.visible = visible

\* the ids answers.<id> that the conditions and value expressions of the rules read
ReadByRules(cat) ==
    LET exprs == UNION {{WhenExpr(rules(cat)[i])}
                        \cup {op.value_expr :
                                 op \in {o \in Range(rules(cat)[i].then)
                                               \cup Range(rules(cat)[i].else) :
                                            o.value_expr.k # "Absent"}} :
                        i \in DOMAIN rules(cat)}
    IN {n.attr : n \in {m \in UNION {Nodes(e) : e \in exprs} :
                           m.k = "Attribute" /\ m.value = Name("answers")}}

\* the keys clear_invisible_answers removed
Discarded == (DOMAIN log[1].answers) \ (DOMAIN answers)

\* what the code gives: the second visibility is the first when no rule reads an
\* answer that was discarded
C36_StableWhenDiscardedUnread ==
    (Returned /\ Discarded \cap ReadByRules(catalog) = {}) =>
        result.raised = "" /\ result.visible = visible

\* C36 witness: the risks were visible by the answer to the hidden sled type, which
\* was discarded; the risks stayed in the answers, and the second visibility hides them
C36_Witness ==
    /\ Returned
    /\ ~visible["FLD_SLED_TYPE"]
    /\ "FLD_SLED_TYPE" \in Discarded
    /\ visible["FLD_RISKS_SLED"]
    /\ "FLD_RISKS_SLED" \in DOMAIN answers
    /\ result.raised = ""
    /\ ~result.visible["FLD_RISKS_SLED"]

\* answers were discarded that no rule reads, and the visibility stayed
C36_StableWitness ==
    /\ Returned
    /\ Discarded # {}
    /\ Discarded \cap ReadByRules(catalog) = {}
    /\ result.visible = visible

-----------------------------------------------------------------------------
(* The wizard: app/ui/router.py                                            *)

\* inventory.fields of a wizard catalog: the conditions screen in three steps, the risks
\* screen, the contacts screen, the payment screen and the field the payment sets
WizardFields ==
    << [field_id |-> "FLD_OBJECTS_SELECTED", data_type |-> "string[]", required |-> TRUE,
        dictionary_id |-> "DICT_INSURANCE_OBJECTS", constraints |-> NoConstraints,
        screen_id |-> "SCR_01_CONDITIONS", category |-> "", step |-> "STEP_01"],
       [field_id |-> "FLD_SLED_TYPE", data_type |-> "string", required |-> FALSE,
        dictionary_id |-> "DICT_SLED_TYPES", constraints |-> NoConstraints,
        screen_id |-> "SCR_01_CONDITIONS", category |-> "", step |-> "STEP_02"],
       [field_id |-> "FLD_INSURED_SUM", data_type |-> "int", required |-> TRUE,
        dictionary_id |-> "", constraints |-> [min |-> 100, max |-> 500, step |-> 100],
        screen_id |-> "SCR_01_CONDITIONS", category |-> "", step |-> "STEP_03"],
       [field_id |-> "FLD_RISKS_SLED", data_type |-> "string[]", required |-> FALSE,
        dictionary_id |-> "DICT_RISKS", constraints |-> NoConstraints,
        screen_id |-> "SCR_03_RISKS", category |-> "CAT_SLED", step |-> ""],
       [field_id |-> "FLD_POLICYHOLDER_NAME", data_type |-> "string", required |-> TRUE,
        dictionary_id |-> "", constraints |-> [min_length |-> 2, max_length |-> 5],
        screen_id |-> "SCR_05_CONTACTS", category |-> "", step |-> ""],
       [field_id |-> "FLD_PAYMENT_METHOD", data_type |-> "string", required |-> FALSE,
        dictionary_id |-> "", constraints |-> NoConstraints,
        screen_id |-> "SCR_06_PAYMENT", category |-> "", step |-> ""],
       [field_id |-> "FLD_PAYMENT_STATUS", data_type |-> "string", required |-> FALSE,
        dictionary_id |-> "", constraints |-> NoConstraints,
        screen_id |-> "SCR_07_FINAL", category |-> "", step |-> ""] >>

\* effects of an action of inventory.actions
SetAnswerExpr(target, value_expr) ==
    [op |-> "set_answer", target_field_id |-> target, value_expr |-> value_expr]
SetPolicyStatus(value) == [op |-> "set_policy_status", value |-> value]

\* inventory.actions: the payment marks a declared field, marks a field the inventory
\* does not declare, or has no action at all
ActPayDeclared ==
    << [action_id |-> "ACT_PAY",
        effects |-> << SetAnswerExpr("FLD_PAYMENT_STATUS", "'PAID'"),
                       SetPolicyStatus("PAID") >>] >>
ActPayUndeclared ==
    << [action_id |-> "ACT_PAY",
        effects |-> << SetAnswerExpr("FLD_PAID_MARK", "\"PAID\""),
                       SetPolicyStatus("PAID") >>] >>
WizardActions == {ActPayDeclared, ActPayUndeclared, << >>}

\* the visibility rules of a wizard catalog: with and without a rule for the risks
WizardRules == {<< RuleSledType >>, << RuleSledType, RuleRisks >>}

WizardCatalog(rs, acts) ==
    [fields |-> WizardFields, dictionaries |-> Dictionaries, rules |-> rs,
     computed |-> << >>, pricing |-> Pricing, currency |-> "RUB", actions |-> acts]

WizardCatalogs ==
    {WizardCatalog(rs \o << RuleTariffBase, RuleSledMultiplier, RuleCompute >>, acts) :
        rs \in WizardRules, acts \in WizardActions}

\* Catalog.actions()
actions(cat) == cat.actions

\* catalog.fields_for_screen(screen_id, step=step); step "" stands for None
_page_fields(cat, screen_id, step) ==
    IF step = "" THEN fields_for_screen(cat, screen_id)
    ELSE SelectSeq(fields_for_screen(cat, screen_id), LAMBDA f : f.step = step)

\* the loop of _apply_risk_category_gates over the fields of the risks screen
RECURSIVE GateLoop(_, _, _, _)
GateLoop(cat, ans, vis, fs) ==
    IF Len(fs) = 0 THEN vis
    ELSE GateLoop(cat, ans, ApplyGate(cat, ans, vis, fs[1]), Tail(fs))

\* the gates left out
_apply_risk_category_gates_none(cat, ans, vis) == vis

\* _apply_risk_category_gates(catalog, answers, visible)
_apply_risk_category_gates(cat, ans, vis) ==
    IF "DICT_RISK_CATEGORIES" \notin DOMAIN cat.dictionaries THEN vis
    ELSE GateLoop(cat, ans, vis, fields_for_screen(cat, "SCR_03_RISKS"))

\* a submitted form: field name -> the values sent under it, in order
\* form.getlist(key)
getlist(form, key) ==
    IF key \in DOMAIN form THEN ListV([i \in DOMAIN form[key] |-> StrV(form[key][i])])
    ELSE ListV(<< >>)

\* form.get(key): the first value, None when there is none
get(form, key) ==
    IF key \in DOMAIN form /\ Len(form[key]) > 0 THEN StrV(form[key][1]) ELSE NullV

\* one iteration of the loop of _parse_form_for_fields: acc is [raised, out]
ParseField(acc, f, v) ==
    IF acc.raised # "" THEN acc
    ELSE IF f.data_type = "string[]"
    THEN [acc EXCEPT !.out = Put(acc.out, f.field_id,
                                 CASE v.t = "null" -> ListV(<< >>)
                                   [] v.t = "list" -> v
                                   [] OTHER -> ListV(<< v >>))]
    ELSE IF v.t = "null" \/ (v.t = "str" /\ v.s = "") THEN acc
    ELSE IF f.data_type = "int"
    THEN IF v.t # "str" THEN [acc EXCEPT !.raised = "TypeError"]
         ELSE IF ~IntParses(v.s) THEN [acc EXCEPT !.raised = "ValueError"]
         ELSE [acc EXCEPT !.out = Put(acc.out, f.field_id, IntV(ParseInt(v.s)))]
    ELSE [acc EXCEPT !.out = Put(acc.out, f.field_id, v)]

RECURSIVE ParseLoop(_, _, _)
ParseLoop(acc, form, fs) ==
    IF Len(fs) = 0 THEN acc
    ELSE ParseLoop(ParseField(acc, fs[1], form[fs[1].field_id]), form, Tail(fs))

\* _parse_form_for_fields(form, fields), form being the payload dict of the handler
_parse_form_for_fields(form, fs) == ParseLoop([raised |-> "", out |-> EmptyMap], form, fs)

\* payload[fid] = form.getlist(fid) for the fields of the page
PayloadOfLists(form, fs) ==
    [fid \in {fs[i].field_id : i \in DOMAIN fs} |-> getlist(form, fid)]

\* payload = {f["field_id"]: form.get(f["field_id"]) for f in fields}
PayloadOfFirsts(form, fs) ==
    [fid \in {fs[i].field_id : i \in DOMAIN fs} |-> get(form, fid)]

\* request.session of a request: a dict with the keys the handlers set
SessionKeys ==
    {"answers", "policy_status", "policy_number", "quote_id", "issued_at_utc", "flash_errors"}

\* session.get(key) is truthy (a missing key, an empty dict and an empty string are not)
Set(sess, key) ==
    /\ key \in DOMAIN sess
    /\ IF key \in {"answers", "flash_errors"} THEN DOMAIN sess[key] # {} ELSE sess[key] # ""

\* the session dict itself handed out instead of a copy of it
_get_answers_alias(sess) ==
    IF Set(sess, "answers") THEN [d |-> sess["answers"], aliased |-> TRUE]
    ELSE [d |-> EmptyMap, aliased |-> FALSE]

\* _get_answers(request): dict(session.get("answers") or {}), a copy the handler may
\* update without touching the session
_get_answers(sess) ==
    IF Set(sess, "answers") THEN [d |-> sess["answers"], aliased |-> FALSE]
    ELSE [d |-> EmptyMap, aliased |-> FALSE]

\* answers.update(parsed): the handler's dict, and the session when the dict is its own
Updated(sess, got, parsed) ==
    [answers |-> Merge(got.d, parsed),
     session |-> IF got.aliased THEN Put(sess, "answers", Merge(got.d, parsed)) ELSE sess]

\* _set_answers(request, answers)
_set_answers(sess, ans) == Put(sess, "answers", ans)

\* _flash_errors_set(request, errors)
_flash_errors_set(sess, errors) == Put(sess, "flash_errors", errors)

\* session.pop(key, None)
Pop(sess, key) == [k \in (DOMAIN sess) \ {key} |-> sess[k]]

\* _flash_errors_pop(request): the errors (None: the empty map) and the session left
_flash_errors_pop(sess) ==
    IF Set(sess, "flash_errors")
    THEN [err |-> sess["flash_errors"], session |-> Pop(sess, "flash_errors")]
    ELSE [err |-> EmptyMap, session |-> sess]

Min(a, b) == IF a <= b THEN a ELSE b

\* str.upper() of one character
UpperChar(c) ==
    IF \E i \in 1..26 : Char(Letters, i) = c
    THEN Char(Letters, 26 + CHOOSE i \in 1..26 : Char(Letters, i) = c)
    ELSE c

RECURSIVE upper(_)
upper(s) == IF Len(s) = 0 THEN "" ELSE UpperChar(Char(s, 1)) \o upper(SubSeq(s, 2, Len(s)))

\* how many characters of the quote id the policy number keeps
PolicyNumberChars == 8

\* _ensure_policy_number(request, quote_id)
_ensure_policy_number(sess, quote_id) ==
    IF Set(sess, "policy_number") THEN sess
    ELSE Put(Put(sess, "policy_number",
                 "NY-" \o upper(SubSeq(quote_id, 1, Min(PolicyNumberChars, Len(quote_id))))),
             "quote_id", quote_id)

\* _ensure_issued_at(request), now being datetime.now(timezone.utc) to the second
_ensure_issued_at(sess, now) ==
    IF Set(sess, "issued_at_utc") THEN sess ELSE Put(sess, "issued_at_utc", now)

\* what the clock may show when a policy is issued
Clock == {"2026-01-01T00:00:00+00:00"}

\* what uuid4() may give to a quote of the wizard
WizardQuoteIds == {"quote-a"}

\* str.strip(chars)
RECURSIVE lstrip(_, _)
lstrip(s, chars) ==
    IF Len(s) > 0 /\ Char(s, 1) \in chars THEN lstrip(SubSeq(s, 2, Len(s)), chars) ELSE s
RECURSIVE rstrip(_, _)
rstrip(s, chars) ==
    IF Len(s) > 0 /\ Char(s, Len(s)) \in chars THEN rstrip(SubSeq(s, 1, Len(s) - 1), chars)
    ELSE s
strip(s, chars) == rstrip(lstrip(s, chars), chars)

\* the responses of the wizard
RedirectResponse(url, status_code) == JSONResponse(status_code, [url |-> url])
TemplateResponse(name, errors) == JSONResponse(200, [template |-> name, errors |-> errors])
DocumentResponse(media_type) == JSONResponse(200, [media_type |-> media_type])

\* what the last step of a handler leaves: the session its response carries, and the
\* response
Outcome(sess, resp) == [session |-> sess, response |-> resp]

\* an exception no handler catches: unhandled_exception_handler answers outside the
\* session middleware, so the session cookie of the client stays what it was
ServerError(sess) == Outcome(sess, InternalError)

\* _render_screen(request, screen_id=..., errors=...): flash errors merged under the
\* errors of the page, and popped
_render_screen(sess, screen_id, errors) ==
    Outcome(_flash_errors_pop(sess).session,
            TemplateResponse(screen_id, Merge(_flash_errors_pop(sess).err, errors)))

\* the pages that take a form: the fields of the page, how the payload is read
\* (form.getlist or form.get), whether the risk gates apply, and where a valid
\* submission leads
Page(path) ==
    CASE path = "/ui/conditions/step/1" ->
            [screen_id |-> "SCR_01_CONDITIONS", step |-> "STEP_01", lists |-> TRUE,
             gated |-> FALSE, next_url |-> "/ui/conditions/step/2"]
      [] path = "/ui/conditions/step/2" ->
            [screen_id |-> "SCR_01_CONDITIONS", step |-> "STEP_02", lists |-> FALSE,
             gated |-> FALSE, next_url |-> "/ui/conditions/step/3"]
      [] path = "/ui/conditions/step/3" ->
            [screen_id |-> "SCR_01_CONDITIONS", step |-> "STEP_03", lists |-> FALSE,
             gated |-> FALSE, next_url |-> "/ui/risks"]
      [] path = "/ui/risks" ->
            [screen_id |-> "SCR_03_RISKS", step |-> "", lists |-> TRUE,
             gated |-> TRUE, next_url |-> "/ui/calc"]
      [] path = "/ui/contacts" ->
            [screen_id |-> "SCR_05_CONTACTS", step |-> "", lists |-> FALSE,
             gated |-> FALSE, next_url |-> "/ui/payment"]
      [] path = "/ui/payment" ->
            [screen_id |-> "SCR_06_PAYMENT", step |-> "", lists |-> FALSE,
             gated |-> FALSE, next_url |-> "/ui/final"]

StepPaths ==
    {"/ui/conditions/step/1", "/ui/conditions/step/2", "/ui/conditions/step/3",
     "/ui/risks", "/ui/contacts"}

\* _parse_form_for_fields(payload, fields) of a form handler
ParsedForm(cat, req) ==
    LET page == Page(req.path)
        fs == _page_fields(cat, page.screen_id, page.step)
    IN _parse_form_for_fields(IF page.lists THEN PayloadOfLists(req.form, fs)
                              ELSE PayloadOfFirsts(req.form, fs), fs)

\* the session behind answers.update(...) of a form handler
UpdatedSession(cat, sess, req) ==
    Updated(sess, _get_answers(sess), ParsedForm(cat, req).out).session

\* something raised outside validate_answers, in the shape of its result
Raised(kind) == [raised |-> kind, field_errors |-> EmptyMap, normalized |-> EmptyMap]

\* the last lines of a conditions, risks or contacts handler
StepFinish(cat, sess, req, res) ==
    IF res.raised = ""
    THEN Outcome(_set_answers(UpdatedSession(cat, sess, req), res.normalized),
                 RedirectResponse(Page(req.path).next_url, 303))
    ELSE IF res.raised = "FieldValidationError"
    THEN _render_screen(UpdatedSession(cat, sess, req), Page(req.path).screen_id,
                        res.field_errors)
    ELSE ServerError(sess)

\* the characters value_expr is stripped of
QuoteChars == {"'", "\""}

\* one effect of the action: st is [answers, session]
ApplyEffect(st, eff) ==
    CASE eff.op = "set_answer" ->
            IF eff.target_field_id = "" THEN st
            ELSE IF "value" \in DOMAIN eff
            THEN [st EXCEPT !.answers = Put(@, eff.target_field_id, eff.value)]
            ELSE IF "value_expr" \in DOMAIN eff
            THEN [st EXCEPT !.answers = Put(@, eff.target_field_id,
                                            StrV(strip(eff.value_expr, QuoteChars)))]
            ELSE st
      [] eff.op = "set_policy_status" ->
            [st EXCEPT !.session = Put(@, "policy_status",
                                       IF "value" \in DOMAIN eff THEN eff.value ELSE "PAID")]
      [] OTHER -> st

RECURSIVE EffectsLoop(_, _)
EffectsLoop(st, effs) ==
    IF Len(effs) = 0 THEN st ELSE EffectsLoop(ApplyEffect(st, effs[1]), Tail(effs))

\* act = next((a for a in actions if a.get("action_id") == action), None); its effects
EffectsOf(cat, action) ==
    LET acts == actions(cat) IN
    IF \E i \in DOMAIN acts : acts[i].action_id = action
    THEN acts[CHOOSE i \in DOMAIN acts : /\ acts[i].action_id = action
                                         /\ \A j \in 1..(i - 1) : acts[j].action_id # action]
            .effects
    ELSE << >>

\* action = form.get("action"), "ACT_PAY" when missing or blank
ActionOf(form) ==
    IF get(form, "action").t = "null" \/ Strip(get(form, "action").s) = "" THEN "ACT_PAY"
    ELSE get(form, "action").s

\* request.session.setdefault("policy_status", "PAID")
setdefault(sess, key, value) == IF key \in DOMAIN sess THEN sess ELSE Put(sess, key, value)

\* the last lines of payment_post: behind a successful validation the effects, the
\* policy status, the answers stored, then the quote, the policy number and the issue
\* time; q is what build_quote gave
PaymentPaid(cat, sess, req, cleaned, q, now) ==
    LET st == EffectsLoop([answers |-> cleaned, session |-> sess],
                          EffectsOf(cat, ActionOf(req.form)))
        stored == _set_answers(setdefault(st.session, "policy_status", "PAID"), st.answers)
    IN IF q.raised # "" THEN ServerError(sess)
       ELSE Outcome(_ensure_issued_at(_ensure_policy_number(stored, q.quote.quoteId.s), now),
                    RedirectResponse(Page(req.path).next_url, 303))

PaymentFinish(cat, sess, req, cleaned, res, q, now) ==
    IF res.raised = ""
    THEN PaymentPaid(cat, UpdatedSession(cat, sess, req), req, cleaned, q, now)
    ELSE IF res.raised = "FieldValidationError"
    THEN _render_screen(UpdatedSession(cat, sess, req), Page(req.path).screen_id,
                        res.field_errors)
    ELSE ServerError(sess)

\* the last lines of calc: only FieldValidationError is caught
CalcFinish(sess, res, q) ==
    IF res.raised = "FieldValidationError"
    THEN _render_screen(sess, "SCR_04_CALC", res.field_errors)
    ELSE IF res.raised # "" THEN ServerError(sess)
    ELSE IF q.raised # "" THEN ServerError(sess)
    ELSE _render_screen(sess, "SCR_04_CALC", EmptyMap)

\* the last lines of final: the policy number and the issue time are set when the quote
\* is there and the session has none yet; every exception ends in the page
FinalFinish(sess, res, q, now) ==
    Outcome(IF res.raised = "" /\ q.raised = ""
            THEN _ensure_issued_at(_ensure_policy_number(sess, q.quote.quoteId.s), now)
            ELSE sess,
            TemplateResponse("final.html", EmptyMap))

\* the paid test left out
Paid_always(sess) == TRUE

\* not (request.session.get("policy_status") != "PAID")
Paid(sess) == "policy_status" \in DOMAIN sess /\ sess["policy_status"] = "PAID"

\* the document of a download
MediaType(path) == IF path = "/ui/policy.pdf" THEN "application/pdf" ELSE "application/json"

\* the last lines of ui_policy_pdf and ui_policy_contract behind the paid test
PolicyFinish(sess, req, res, q, now) ==
    IF res.raised = "FieldValidationError"
    THEN Outcome(_flash_errors_set(sess, res.field_errors),
                 RedirectResponse("/ui/payment", 303))
    ELSE IF res.raised # "" THEN ServerError(sess)
    ELSE IF q.raised # "" THEN ServerError(sess)
    ELSE Outcome(_ensure_issued_at(_ensure_policy_number(sess, q.quote.quoteId.s), now),
                 DocumentResponse(MediaType(req.path)))

\* the last lines of payment (GET): the page rendered, flash errors popped
PaymentPage(sess, res) ==
    IF res.raised # "" THEN ServerError(sess) ELSE _render_screen(sess, "SCR_06_PAYMENT", EmptyMap)

\* ui_start
ui_start(sess) ==
    Outcome([answers |-> EmptyMap], RedirectResponse("/ui/conditions/step/1", 302))

\* ui_reset
ui_reset(sess) == Outcome(EmptyMap, RedirectResponse("/ui/conditions/step/1", 302))

\* the last lines of the handler of a request
Finish(cat, sess, req, cleaned, res, q, now) ==
    CASE req.method = "POST" /\ req.path \in StepPaths -> StepFinish(cat, sess, req, res)
      [] req.method = "POST" /\ req.path = "/ui/payment" ->
            PaymentFinish(cat, sess, req, cleaned, res, q, now)
      [] req.method = "GET" /\ req.path = "/ui/payment" -> PaymentPage(sess, res)
      [] req.path = "/ui/calc" -> CalcFinish(sess, res, q)
      [] req.path = "/ui/final" -> FinalFinish(sess, res, q, now)
      [] req.path \in {"/ui/policy.pdf", "/ui/policy.contract"} ->
            IF ~Paid(sess) THEN Outcome(sess, RedirectResponse("/ui/payment", 303))
            ELSE PolicyFinish(sess, req, res, q, now)

\* the forms a browser submits on each page
Step1Forms ==
    {EmptyMap} \cup
    {[FLD_OBJECTS_SELECTED |-> vs] :
        vs \in {<< "OBJ_SLED" >>, << "OBJ_SANTA" >>, << "OBJ_NOPE" >>}}
Step2Forms == {EmptyMap} \cup {[FLD_SLED_TYPE |-> << v >>] : v \in {"SLED_TURBO", "SLED_NOPE"}}
Step3Forms == {[FLD_INSURED_SUM |-> << v >>] : v \in {"300", "50", "3oo"}}
RisksForms ==
    {EmptyMap} \cup {[FLD_RISKS_SLED |-> << v >>] : v \in {"R_SLED_THEFT", "R_NOPE"}}
ContactsForms == {[FLD_POLICYHOLDER_NAME |-> << v >>] : v \in {"Ivan", "I"}}
PaymentForms ==
    {EmptyMap, [FLD_PAYMENT_METHOD |-> << "CARD" >>],
     [FLD_PAYMENT_METHOD |-> << "CARD" >>, action |-> << "ACT_LATER" >>]}

Request(method, path, form) == [method |-> method, path |-> path, form |-> form]

\* the handlers that go on to build_quote behind a successful validation
Prices(req) ==
    \/ req.method = "POST" /\ req.path = "/ui/payment"
    \/ req.path \in {"/ui/calc", "/ui/final", "/ui/policy.pdf", "/ui/policy.contract"}

\* the handlers that go on to clear and validate behind compute_visibility
Validates(req) == ~(req.method = "GET" /\ req.path = "/ui/payment")

\* the first lines of a form handler: the form read for the fields of the page and
\* merged into a copy of the stored answers
Submit(path, form, req_all) ==
    /\ pc = "serving"
    /\ payload' = Request("POST", path, form)
    /\ require_all_required' = req_all
    /\ IF ParsedForm(catalog, payload').raised # ""
       THEN /\ result' = Raised(ParsedForm(catalog, payload').raised)
            /\ answers' = None
            /\ pc' = "respond"
       ELSE /\ result' = None
            /\ answers' = Updated(session, _get_answers(session),
                                  ParsedForm(catalog, payload').out).answers
            /\ pc' = "visibility"
    /\ UNCHANGED <<session, log, visible, quote, response, catalog, rule_i, op_j, cur_ops,
                   pass, call, cache, files, frames, heap>>

\* the first lines of a handler that works on the stored answers
Open(path, req_all) ==
    /\ pc = "serving"
    /\ payload' = Request("GET", path, EmptyMap)
    /\ require_all_required' = req_all
    /\ answers' = _get_answers(session).d
    /\ pc' = "visibility"
    /\ UNCHANGED <<session, log, visible, result, quote, response, catalog, rule_i, op_j,
                   cur_ops, pass, call, cache, files, frames, heap>>

\* a handler that answers without looking at the answers
Answer(req, out, history) ==
    /\ pc = "serving"
    /\ payload' = req
    /\ session' = out.session
    /\ response' = out.response
    /\ log' = history
    /\ pc' = "returned"
    /\ UNCHANGED <<answers, visible, result, quote, require_all_required, catalog, rule_i,
                   op_j, cur_ops, pass, call, cache, files, frames, heap>>

UiStart == Answer(Request("GET", "/ui/start", EmptyMap), ui_start(session), {})

UiReset == Answer(Request("POST", "/ui/reset", EmptyMap), ui_reset(session), {})

ConditionsStep1Post == \E form \in Step1Forms : Submit("/ui/conditions/step/1", form, FALSE)

ConditionsStep2Post == \E form \in Step2Forms : Submit("/ui/conditions/step/2", form, FALSE)

ConditionsStep3Post == \E form \in Step3Forms : Submit("/ui/conditions/step/3", form, FALSE)

RisksPost == \E form \in RisksForms : Submit("/ui/risks", form, FALSE)

ContactsPost == \E form \in ContactsForms : Submit("/ui/contacts", form, FALSE)

PaymentPost == \E form \in PaymentForms : Submit("/ui/payment", form, TRUE)

PaymentGet == Open("/ui/payment", FALSE)

Calc == Open("/ui/calc", FALSE)

Final == Open("/ui/final", TRUE)

\* ui_policy_pdf and ui_policy_contract: the paid test, then the stored answers
UiPolicy(path) ==
    IF Paid(session) THEN Open(path, TRUE)
    ELSE Answer(Request("GET", path, EmptyMap),
                Outcome(session, RedirectResponse("/ui/payment", 303)), log)

UiPolicyPdf == UiPolicy("/ui/policy.pdf")

UiPolicyContract == UiPolicy("/ui/policy.contract")

\* vis = compute_visibility(catalog, answers, {}), gated on the risks page, and
\* answers = clear_invisible_answers(answers, vis)
UiVisibility ==
    /\ pc = "visibility"
    /\ \E cv \in {compute_visibility(catalog, answers, EmptyMap)} :
          IF cv.raised # ""
          THEN /\ result' = Raised(cv.raised)
               /\ pc' = "respond"
               /\ UNCHANGED <<visible, answers>>
          ELSE /\ visible' = IF payload.method = "POST" /\ Page(payload.path).gated
                             THEN _apply_risk_category_gates(catalog, answers, cv.visible)
                             ELSE cv.visible
               /\ IF Validates(payload)
                  THEN answers' = clear_invisible_answers(answers, visible') /\ pc' = "validate"
                  ELSE answers' = answers /\ pc' = "respond"
               /\ result' = Raised("")
    /\ UNCHANGED <<session, log, payload, require_all_required, quote, response, catalog,
                   rule_i, op_j, cur_ops, pass, call, cache, files, frames, heap>>

\* validated = validate_answers(catalog, answers, visible=vis, require_all_required=...)
UiValidate ==
    /\ pc = "validate"
    /\ result' = validate_answers(catalog, answers, visible, require_all_required)
    /\ pc' = IF result'.raised = "" /\ Prices(payload) THEN "quote" ELSE "respond"
    /\ UNCHANGED <<session, log, payload, answers, visible, require_all_required, quote,
                   response, catalog, rule_i, op_j, cur_ops, pass, call, cache, files,
                   frames, heap>>

\* quote = build_quote(catalog, validated)
UiQuote ==
    /\ pc = "quote"
    /\ \E quote_id \in WizardQuoteIds :
          quote' = build_quote(catalog, result.normalized, quote_id)
    /\ pc' = "respond"
    /\ UNCHANGED <<session, log, payload, answers, visible, require_all_required, result,
                   response, catalog, rule_i, op_j, cur_ops, pass, call, cache, files,
                   frames, heap>>

\* the payment submissions since the session was last cleared, with whether
\* validate_answers returned
PaymentEvents(req, vis, res) ==
    IF req.method = "POST" /\ req.path = "/ui/payment" /\ vis # None
    THEN {[path |-> req.path, passed |-> res.raised = ""]}
    ELSE {}

\* the last lines of the handler: the response, and the session it carries
UiRespond ==
    /\ pc = "respond"
    /\ \E now \in Clock :
          \E out \in {Finish(catalog, session, payload, answers, result, quote, now)} :
              session' = out.session /\ response' = out.response
    /\ log' = log \cup PaymentEvents(payload, visible, result)
    /\ pc' = "returned"
    /\ UNCHANGED <<payload, answers, visible, require_all_required, result, quote, catalog,
                   rule_i, op_j, cur_ops, pass, call, cache, files, frames, heap>>

\* the response is out; the next request of the browser is awaited
AwaitRequest ==
    /\ pc = "returned"
    /\ pc' = "serving"
    /\ payload' = None /\ response' = None /\ quote' = None /\ require_all_required' = None
    /\ answers' = None /\ visible' = None /\ result' = None
    /\ UNCHANGED <<session, log, catalog, rule_i, op_j, cur_ops, pass, call, cache, files,
                   frames, heap>>

\* a browser without a session cookie arrives
InitWizard ==
    /\ catalog \in WizardCatalogs
    /\ session = EmptyMap
    /\ pc = "serving"
    /\ log = {}
    /\ answers = None /\ visible = None /\ require_all_required = None /\ result = None
    /\ NoLoop /\ NoRequest /\ NoEval
    /\ cache = None /\ files = None /\ frames = None /\ heap = None

NextWizard ==
    \/ UiStart \/ UiReset
    \/ ConditionsStep1Post \/ ConditionsStep2Post \/ ConditionsStep3Post
    \/ RisksPost \/ ContactsPost
    \/ PaymentGet \/ PaymentPost
    \/ Calc \/ Final \/ UiPolicyPdf \/ UiPolicyContract
    \/ UiVisibility \/ UiValidate \/ UiQuote \/ UiRespond
    \/ AwaitRequest

SpecWizard == InitWizard /\ [][NextWizard]_vars

-----------------------------------------------------------------------------
(* C37: what GET /ui/calc prices                                           *)

\* the risk gate hides the field under the object selection stored in the session
GateHides(cat, sess, fid) ==
    ~_apply_risk_category_gates(cat, _get_answers(sess).d, AllVisible(cat))[fid]

\* the fields of the risks screen
RiskFields(cat) ==
    {fields_for_screen(cat, "SCR_03_RISKS")[i].field_id :
        i \in DOMAIN fields_for_screen(cat, "SCR_03_RISKS")}

\* calc has handed its validated answers to build_quote
CalcPriced == pc = "returned" /\ payload.path = "/ui/calc" /\ quote # None

\* C37: whatever was submitted before, the answers GET /ui/calc prices hold no answer
\* for a risk field that the risk-category gate hides under the stored object selection
C37_CalcPricesNoGatedRisk ==
    CalcPriced =>
        \A fid \in RiskFields(catalog) \cap DOMAIN result.normalized :
            ~GateHides(catalog, session, fid)

\* the same for the catalogs whose own rules hide the risks of an object not selected
C37_HoldsUnderRiskRule ==
    (CalcPriced /\ \E i \in DOMAIN rules(catalog) : rules(catalog)[i] = RuleRisks) =>
        \A fid \in RiskFields(catalog) \cap DOMAIN result.normalized :
            ~GateHides(catalog, session, fid)

\* calc prices a risk answer that the gate lets through
C37_Witness ==
    /\ CalcPriced
    /\ quote.raised = ""
    /\ "FLD_RISKS_SLED" \in DOMAIN result.normalized
    /\ result.normalized["FLD_RISKS_SLED"] = ListV(<< StrV("R_SLED_THEFT") >>)
    /\ ~GateHides(catalog, session, "FLD_RISKS_SLED")

\* calc prices a theft risk of the sled while the stored selection is the Santa alone
C37_StaleRiskWitness ==
    /\ CalcPriced
    /\ quote.raised = ""
    /\ SelectedObjects(_get_answers(session).d) = {"OBJ_SANTA"}
    /\ "FLD_RISKS_SLED" \in DOMAIN result.normalized
    /\ result.normalized["FLD_RISKS_SLED"] = ListV(<< StrV("R_SLED_THEFT") >>)
    /\ quote.quote.breakdown.d.risk_weight_sum = IntV(2)

-----------------------------------------------------------------------------
(* C38: what the session stores                                            *)

\* the stored answers put through validate_answers, for the visibility computed from them
StoredValidated(cat, sess) ==
    Bind(compute_visibility(cat, _get_answers(sess).d, EmptyMap), LAMBDA cv :
        IF cv.raised # "" THEN Raised(cv.raised)
        ELSE validate_answers(cat, _get_answers(sess).d, cv.visible, FALSE))

\* C38: after any sequence of wizard requests the answers stored in the session are an
\* output of validate_answers for the visibility in force: validation accepts them and
\* returns them as they are, so nothing was stored that did not pass validation
C38_StoredAnswersValidated ==
    Bind(StoredValidated(catalog, session), LAMBDA v :
        v.raised = "" /\ v.normalized = _get_answers(session).d)

\* what the conditions, risks and contacts handlers store is the output of the
\* validate_answers call they made
C38_StepsStoreValidated ==
    (/\ pc = "returned"
     /\ payload.method = "POST"
     /\ payload.path \in StepPaths
     /\ response.status_code = 303) => session["answers"] = result.normalized

\* a step has stored its validated answers
C38_Witness ==
    /\ pc = "returned"
    /\ payload.method = "POST"
    /\ payload.path = "/ui/contacts"
    /\ response.status_code = 303
    /\ DOMAIN session["answers"] =
          {"FLD_OBJECTS_SELECTED", "FLD_INSURED_SUM", "FLD_POLICYHOLDER_NAME"}

\* the payment has stored a value its effect set, for a field validation refuses
C38_EffectWitness ==
    /\ pc = "returned"
    /\ payload.method = "POST"
    /\ payload.path = "/ui/payment"
    /\ response = RedirectResponse("/ui/final", 303)
    /\ "FLD_PAID_MARK" \in DOMAIN session["answers"]
    /\ "FLD_PAID_MARK" \notin DOMAIN result.normalized
    /\ StoredValidated(catalog, session).raised = "FieldValidationError"

\* the same for the catalogs whose payment action sets no answer, or sets one that
\* validation accepts
C38_HoldsForAcceptedEffects ==
    actions(catalog) # ActPayUndeclared =>
        Bind(StoredValidated(catalog, session), LAMBDA v :
            v.raised = "" /\ v.normalized = _get_answers(session).d)

-----------------------------------------------------------------------------
(* C39: a submission that fails validation                                 *)

\* session.get(key) is the same in both sessions
SameKey(s, t, key) ==
    /\ (key \in DOMAIN s) = (key \in DOMAIN t)
    /\ key \in DOMAIN s => s[key] = t[key]

\* validate_answers was called by the form handler of the request, and raised
SubmissionFailed ==
    /\ payload # None
    /\ payload.method = "POST"
    /\ payload.path \in StepPaths \cup {"/ui/payment"}
    /\ visible # None
    /\ result.raised # ""

\* C39: when validate_answers fails in a step POST (conditions 1-3, risks, contacts,
\* payment), the stored answers, policy_status, policy_number and issued_at of the
\* session are what they were before the request
C39_FailedSubmissionKeepsSession ==
    [][(pc = "respond" /\ SubmissionFailed) =>
           \A key \in {"answers", "policy_status", "policy_number", "issued_at_utc"} :
               SameKey(session, session', key)]_vars

\* a submission has failed validation in a session that holds answers and a paid policy
C39_Witness ==
    /\ pc = "returned"
    /\ SubmissionFailed
    /\ result.raised = "FieldValidationError"
    /\ response.status_code = 200
    /\ Set(session, "answers")
    /\ Paid(session)
    /\ Set(session, "policy_number")
    /\ Set(session, "issued_at_utc")

\* the payment has failed validation for want of a required answer
C39_PaymentWitness ==
    /\ pc = "returned"
    /\ SubmissionFailed
    /\ payload.path = "/ui/payment"
    /\ DOMAIN result.field_errors # {}
    /\ Set(session, "answers")
    /\ ~Paid(session)

-----------------------------------------------------------------------------
(* C40: the policy documents                                               *)

\* the stored answers put through the checks of ui_policy_pdf: visibility, clearing and
\* validate_answers with require_all_required=True
StoredComplete(cat, sess) ==
    Bind(compute_visibility(cat, _get_answers(sess).d, EmptyMap), LAMBDA cv :
        IF cv.raised # "" THEN Raised(cv.raised)
        ELSE validate_answers(cat, clear_invisible_answers(_get_answers(sess).d, cv.visible),
                              cv.visible, TRUE))

\* a download has been answered
PolicyAnswered ==
    pc = "returned" /\ payload.path \in {"/ui/policy.pdf", "/ui/policy.contract"}

\* the answer is the document
Delivered == response = DocumentResponse(MediaType(payload.path))

\* POST /ui/payment has passed validate_answers since the session was last cleared
PaymentPassed == [path |-> "/ui/payment", passed |-> TRUE] \in log

C40_RefusedWitness ==
    /\ PolicyAnswered
    /\ ~Delivered
    /\ PaymentPassed
    /\ Paid(session)
    /\ Set(session, "flash_errors")

\* a download is refused for want of a payment, the stored answers being complete
C40_UnpaidWitness ==
    /\ PolicyAnswered
    /\ ~Delivered
    /\ ~Paid(session)
    /\ StoredComplete(catalog, session).raised = ""

====
